---- MODULE Spec2Model ----
(***************************************************************************)
(* go-balancer: the discovery registry (BackendList + reconcile), the      *)
(* round-robin strategy and the BalanceHandler dispatch path, modelled as  *)
(* concurrent HTTP handler goroutines and one informer goroutine.          *)
(***************************************************************************)
EXTENDS Integers, Sequences, FiniteSets, TLC

\* ------------------------------------------------------------------ bounds
NumTasks == 2        \* concurrent HTTP handler goroutines
MaxRequests == 4     \* requests that may enter the proxy path
MaxEvents == 2       \* informer notifications delivered
MaxLen == 3          \* longest snapshot handed to the strategy on its own
MaxCounter == 7      \* largest counter value handed to the strategy on its own
MaxLiveEvents == 2   \* notifications delivered where progress is checked
MaxLiveRequests == 1 \* proxied requests where progress is checked
MaxAddr == 4         \* backing arrays that may be allocated
MaxPings == 5        \* ping calls the backend responder serves
MaxCancelEvents == 1 \* notifications delivered where cancellation is checked
MaxCancelRequests == 2 \* proxied requests where cancellation is checked
MaxRotationEvents == 1 \* notifications delivered where the rotation is checked
IntBits == 4         \* bits of Go's int, scaled down from the platform's 64
NumReplicas == 2     \* balancer instances behind the same feed
MaxFeed == 2         \* notifications the control plane publishes to the instances
MaxReplicaRequests == 2 \* requests each instance may receive

Tasks == 1..NumTasks
\* a nil pointer, an unset local
Nil == [nil |-> TRUE]
\* no handler chosen, no response yet
None == "none"

\* ------------------------------------------------------------ configuration
ServiceName == "backend"
OtherName == "other"
BackendPort == 8080

\* ------------------------------------------------------------- data model
\* discovery.Backend
Backend(ip, pod) == [Address |-> ip, PodName |-> pod]

\* the zero value make([]Backend, n) fills a fresh slice with
ZeroBackend == Backend("", "")

BackendA == Backend("10.0.0.1", "A")
BackendB == Backend("10.0.0.2", "B")
BackendC == Backend("10.0.0.3", "C")

\* corev1.EndpointAddress: TargetRef is a pointer and may be nil
Address(b) == [IP |-> b.Address, TargetRef |-> [Name |-> b.PodName]]
AddressNoRef(b) == [IP |-> b.Address, TargetRef |-> Nil]

\* corev1.EndpointSubset
Subset(ready, notReady) == [Addresses |-> ready, NotReadyAddresses |-> notReady]

\* the object an informer callback receives: *corev1.Endpoints or something else
Endpoints(name, subsets) == [IsEndpoints |-> TRUE, Name |-> name, Subsets |-> subsets]
NotEndpoints == [IsEndpoints |-> FALSE, Name |-> ServiceName, Subsets |-> <<>>]

\* the notifications the informer may deliver
Events ==
  { Endpoints(ServiceName, <<Subset(<<Address(BackendA), Address(BackendB), Address(BackendC)>>, <<>>)>>),
    Endpoints(ServiceName, <<Subset(<<Address(BackendA)>>, <<Address(BackendB)>>),
                             Subset(<<Address(BackendC)>>, <<>>)>>),
    Endpoints(ServiceName, <<>>),
    Endpoints(OtherName, <<Subset(<<Address(BackendB)>>, <<>>)>>),
    Endpoints(ServiceName, <<Subset(<<Address(BackendA), AddressNoRef(BackendB)>>, <<>>)>>),
    NotEndpoints }

Paths == {"/status", "/next-backend", "/", "/ping"}

\* the paths of the diagnostic routes of Register
Diagnostic == {"/status", "/next-backend"}

\* -------------------------------------------------------------------- state
VARIABLES
  backends,     \* BackendList.backends
  blmu,         \* BackendList.mu: [w: the informer holds it, r: tasks holding RLock,
                \*                  p: the informer waits in Lock]
  Requests,     \* BalanceHandler.Requests
  bhmu,         \* BalanceHandler.mu: [w: tasks holding Lock, r: tasks holding RLock,
                \*                     p: tasks waiting in Lock]
  pc,           \* each handler goroutine's position
  route,        \* which handler the mux chose for the task's request
  requests,     \* the local `requests` of Rewrite / nextBackend
  result,       \* the local `result` of GetAll, then the snapshot handed back
  target,       \* the backend chosen for the task's request
  attempts,     \* the backends the transport was pointed at for the request
  outcome,      \* what the task's caller receives
  url,          \* the outbound URL set by pr.SetURL
  body,         \* the JSON a diagnostic handler writes
  rpc,          \* the informer goroutine's position
  endpoints,    \* the object of the notification being handled
  rbackends,    \* the local `backends` of reconcile
  delivered,    \* notifications delivered so far
  crashed,      \* the process died of an unrecovered panic
  log,          \* history: the notifications delivered, in delivery order
  dispatched,   \* history: requests that entered the proxy's Rewrite
  seen,         \* history: values bl.backends had while the task's GetAll read it
  lastNext,     \* history: backend reported by the last undisturbed next-backend call
  expect,       \* history: lastNext as it was when the task read the counter
  mainpc,       \* main's position
  pathIdx,      \* main: the index of the loop over paths
  cfg,          \* main: the local `cfg`
  err,          \* main: the local `err`
  Strategy,     \* BalanceHandler.Strategy
  offered,      \* history: the strategy names main's sources carried, in reading order
  heap,         \* slices: the backing array at each address
  brk,          \* slices: the number of backing arrays allocated
  blref,        \* slices: the backing array of bl.backends
  snap,         \* slices: the backing array of the slice GetAll handed each caller
  urlPath,      \* r.URL.Path of the request each handler goroutine serves
  wrote,        \* history: the callers that wrote to the slice they were handed
  Count,        \* backend: ServiceHandler.Count
  spc,          \* backend: where each of its handler goroutines is
  count,        \* backend: ping's local count
  reply,        \* backend: the response body each handler wrote
  pings,        \* history: the number of ping calls that have done their add
  nth,          \* history: the how-manieth ping each handler's call is
  reported,     \* history: the counts the ping responses carried, in writing order
  called,       \* loaders: the loader called and the file or environment it finds
  loaded,       \* loaders: what the loader returned
  ctxDone,      \* transport: the context of the task's inbound request is cancelled
  conn,         \* transport: the backend connection of the task's request
  reg,          \* counter: the value bh.Requests++ has loaded and not yet stored
  obtained,     \* history: the values of `requests` Rewrite read back, in reading order
  picked,       \* history: for each counter value, the backend selected with it and
                \*          the snapshot it was selected from
  verb,         \* history: the callback the informer delivered its last notification to
  stream,       \* replicas: the notifications the control plane has published, in order
  replica,      \* replicas: each instance's registry, counter, informer and handler
  quit,         \* shutdown: a signal is buffered in the channel quit
  stopCh,       \* shutdown: the channel stopCh, open or closed
  shutter,      \* shutdown: the position of the goroutine that calls server.Shutdown
  listener,     \* shutdown: the server's listener, and the goroutine of ListenAndServe
  informing,    \* shutdown: the informers factory.Start(stopCh) started are running
  active,       \* shutdown: the handler goroutines with a request in flight
  killed        \* history: the requests in flight when the process ended

vars == <<backends, blmu, Requests, bhmu, pc, route, requests, result, target,
          attempts, outcome, url, body, rpc, endpoints, rbackends, delivered, crashed,
          log, dispatched, seen, lastNext, expect,
          mainpc, pathIdx, cfg, err, Strategy, offered,
          heap, brk, blref, snap, wrote, urlPath,
          Count, spc, count, reply, pings, nth, reported, called, loaded,
          ctxDone, conn, reg, obtained, picked, verb,
          stream, replica, quit, stopCh, shutter, listener, informing, active, killed>>

registry == <<backends, blmu>>
informer == <<rpc, endpoints, rbackends, delivered, crashed, log>>
locals == <<requests, result, target, attempts, outcome, url, body>>
history == <<dispatched, seen, lastNext, expect>>
startup == <<mainpc, pathIdx, cfg, err, Strategy, offered>>
slices == <<heap, brk, blref, snap, wrote>>
service == <<Count, spc, count, reply, pings, nth, reported>>
loaders == <<called, loaded>>
transport == <<ctxDone, conn>>
counter == <<reg, obtained>>
rotation == <<picked>>
feed == <<verb>>
replicas == <<stream, replica>>
shutdown == <<quit, stopCh, shutter, listener, informing, active, killed>>

\* the state of the parts that are modelled on their own
apart == <<slices, service, loaders, transport, counter>>
beside == <<apart, feed, replicas, shutdown>>

\* ------------------------------------------------------------- sync.RWMutex
\* mutant: Lock returns at once, whoever holds the lock
CanLockAlways(mu) == TRUE

\* Lock waits for the writer and for every reader
CanLock(mu) == mu.w = {} /\ mu.r = {}

\* mutant: readers enter while the writer holds the lock
CanRLockAlways(mu) == TRUE

\* RLock waits for the writer and for every goroutine waiting in Lock: a call
\* of Lock keeps new readers out until that writer has had the lock
CanRLock(mu) == mu.w = {} /\ mu.p = {}

\* the goroutine has called Lock and waits for the lock
Pending(mu, who) == [mu EXCEPT !.p = @ \cup {who}]

Lock(mu, who) == [mu EXCEPT !.w = @ \cup {who}, !.p = @ \ {who}]
Unlock(mu, who) == [mu EXCEPT !.w = @ \ {who}]
RLock(mu, who) == [mu EXCEPT !.r = @ \cup {who}]
RUnlock(mu, who) == [mu EXCEPT !.r = @ \ {who}]

Informer == "informer"

\* ------------------------------------------------------------------ strategy
\* Go's % truncates toward zero
GoRem(a, b) == IF a >= 0 THEN a % b ELSE -((-a) % b)

\* Go's int: two's complement of IntBits bits
MinInt == -(2 ^ (IntBits - 1))
MaxInt == (2 ^ (IntBits - 1)) - 1

\* integer arithmetic on int wraps around on overflow
Wrap(n) == ((n - MinInt) % (2 ^ IntBits)) + MinInt

\* RoundRobin.Next panics on an empty slice (division by zero) and on an index
\* out of range
RoundRobinNextPanics(bs, reqs) == Len(bs) = 0 \/ GoRem(reqs, Len(bs)) < 0

\* mutant: the index is one too far
RoundRobinNextOffByOne(bs, reqs) == bs[GoRem(reqs + 1, Len(bs)) + 1]

\* mutant: the index is taken from the counter before its increment
RoundRobinNextPreIncrement(bs, reqs) == bs[((reqs - 1) % Len(bs)) + 1]

\* mutant: the index advances with every second counter value
RoundRobinNextEverySecond(bs, reqs) == bs[GoRem(reqs \div 2, Len(bs)) + 1]

\* RoundRobin.Next: backends[requests%len(backends)], Go indexes from 0
RoundRobinNext(bs, reqs) == bs[GoRem(reqs, Len(bs)) + 1]

\* ----------------------------------------------------------------- discovery
\* reconcile's inner loop: one Backend appended per entry of subnet.Addresses
RECURSIVE AppendAddresses(_, _)
AppendAddresses(acc, addrs) ==
  IF addrs = <<>> THEN acc
  ELSE AppendAddresses(Append(acc, Backend(Head(addrs).IP, Head(addrs).TargetRef.Name)),
                       Tail(addrs))

\* mutant: the outer loop also walks each subset's NotReadyAddresses
RECURSIVE AppendSubsetsNotReady(_, _)
AppendSubsetsNotReady(acc, subsets) ==
  IF subsets = <<>> THEN acc
  ELSE AppendSubsetsNotReady(
         AppendAddresses(AppendAddresses(acc, Head(subsets).Addresses),
                         Head(subsets).NotReadyAddresses),
         Tail(subsets))

\* reconcile's outer loop over endpoints.Subsets
RECURSIVE AppendSubsets(_, _)
AppendSubsets(acc, subsets) ==
  IF subsets = <<>> THEN acc
  ELSE AppendSubsets(AppendAddresses(acc, Head(subsets).Addresses), Tail(subsets))

\* address.TargetRef.Name dereferences a nil pointer
ReconcilePanics(e) ==
  \E i \in 1..Len(e.Subsets) :
    \E j \in 1..Len(e.Subsets[i].Addresses) : e.Subsets[i].Addresses[j].TargetRef = Nil

\* copy(dst, src): the first min(len(dst), len(src)) elements of src over dst
Copy(dst, src) ==
  [i \in 1..Len(dst) |-> IF i <= Len(src) THEN src[i] ELSE dst[i]]

\* positions of a handler inside BackendList.GetAll
InGetAll == {"GetAllCopy"}

\* ------------------------------------------------------------------- config
\* const StrategyRoundRobin
StrategyRoundRobin == "RoundRobin"

\* strategy names an operator may write into the configuration
Methods == {StrategyRoundRobin, "roundrobin", "LeastConn", ""}

\* Config with the method m
Config(m) ==
  [BackendName |-> ServiceName, BackendPort |-> BackendPort,
   LoadbalancerPort |-> 9090, LoadbalancerMethod |-> m]

\* Config.validate: nil unless the method is none of `strategies`
validate(c) ==
  IF c.LoadbalancerMethod \in {StrategyRoundRobin} THEN None ELSE "invalid strategy"

\* what os.Open and the JSON decoder find at a path
Absent == [absent |-> TRUE]
BadJSON == [badjson |-> TRUE]
FileContents == {Absent, BadJSON} \cup {Config(m) : m \in Methods}

\* what the process environment holds: a variable is missing, a port is no
\* number, or the four variables make a Config
MissingVar == [missing |-> TRUE]
BadPort == [badport |-> TRUE]
Environments == {MissingVar, BadPort} \cup {Config(m) : m \in Methods}

\* LoadFromFile: (cfg, err)
LoadFromFile(content) ==
  IF content = Absent THEN [cfg |-> Nil, err |-> "open"]
  ELSE IF content = BadJSON THEN [cfg |-> Nil, err |-> "parse"]
  ELSE IF validate(content) # None THEN [cfg |-> Nil, err |-> validate(content)]
  ELSE [cfg |-> content, err |-> None]

\* LoadFromEnv: (cfg, err)
LoadFromEnv(e) ==
  IF e = MissingVar THEN [cfg |-> Nil, err |-> "lookup"]
  ELSE IF e = BadPort THEN [cfg |-> Nil, err |-> "atoi"]
  ELSE IF validate(e) # None THEN [cfg |-> Nil, err |-> validate(e)]
  ELSE [cfg |-> e, err |-> None]

\* NewStrategy: the default case returns round robin as well
NewStrategy(method) ==
  IF method = "RoundRobin" THEN "RoundRobin" ELSE "RoundRobin"

\* main's list of paths
ConfigPaths == <<"/etc/balancer/config.json", "config.json">>

\* the strategy name a source carries, if it can be decoded at all
Carried(source) ==
  IF source \in {Absent, BadJSON, MissingVar, BadPort} THEN <<>>
  ELSE <<source.LoadbalancerMethod>>

\* ------------------------------------------------------------------ loaders
\* the characters of the texts a port variable may hold
Chars ==
  [s \in {"1234", "8080", "9090", "-1", "+80", "1234a", "80a", "x", ""} |->
     CASE s = "1234" -> <<"1", "2", "3", "4">>
       [] s = "8080" -> <<"8", "0", "8", "0">>
       [] s = "9090" -> <<"9", "0", "9", "0">>
       [] s = "-1" -> <<"-", "1">>
       [] s = "+80" -> <<"+", "8", "0">>
       [] s = "1234a" -> <<"1", "2", "3", "4", "a">>
       [] s = "80a" -> <<"8", "0", "a">>
       [] s = "x" -> <<"x">>
       [] s = "" -> <<>>]

Digits == <<"0", "1", "2", "3", "4", "5", "6", "7", "8", "9">>

IsDigit(c) == \E d \in 1..10 : Digits[d] = c

DigitVal(c) == (CHOOSE d \in 1..10 : Digits[d] = c) - 1

\* the number a sequence of digits writes
RECURSIVE Horner(_, _)
Horner(acc, cs) ==
  IF cs = <<>> THEN acc ELSE Horner(acc * 10 + DigitVal(Head(cs)), Tail(cs))

\* the characters after an optional sign
Unsigned(cs) == IF cs # <<>> /\ Head(cs) \in {"+", "-"} THEN Tail(cs) ELSE cs

Sign(cs) == IF cs # <<>> /\ Head(cs) = "-" THEN -1 ELSE 1

\* mutant: the number is read from the digits and every other character is
\* skipped
AtoiLenient(s) ==
  [n |-> Sign(Chars[s]) * Horner(0, SelectSeq(Unsigned(Chars[s]), IsDigit)), err |-> None]

\* strconv.Atoi: an optional sign, then digits and nothing else; (n, err)
Atoi(s) ==
  IF Unsigned(Chars[s]) = <<>> \/ \E i \in 1..Len(Unsigned(Chars[s])) : ~IsDigit(Unsigned(Chars[s])[i])
  THEN [n |-> 0, err |-> "syntax"]
  ELSE [n |-> Sign(Chars[s]) * Horner(0, Unsigned(Chars[s])), err |-> None]

\* os.LookupEnv: (value, ok)
Unset == [val |-> "", ok |-> FALSE]
Var(x) == [val |-> x, ok |-> TRUE]

\* a JSON value of an object, or the key is not in the object
Missing == [kind |-> "missing"]
Num(n) == [kind |-> "number", num |-> n]
Str(x) == [kind |-> "string", str |-> x]
Val(v) == IF v.kind = "number" THEN v.num ELSE v.str

\* what os.Open and the decoder find at the path: no file, text that is no
\* JSON, the JSON null, or a JSON object
DocAbsent == [kind |-> "absent"]
DocMalformed == [kind |-> "malformed"]
DocNull == [kind |-> "null"]
DocObject(f) == [kind |-> "object", fields |-> f]

\* the JSON kind each field of the backend's Config and of the balancer's
\* Config decodes from, by its json tag
BackendSchema == [port |-> "number", name |-> "string"]
BalancerSchema ==
  [backendname |-> "string", backendport |-> "number",
   loadbalancerport |-> "number", loadbalancermethod |-> "string"]

\* the zero value of a field
Zero(kind) == IF kind = "number" THEN 0 ELSE ""

\* json.Decoder.Decode into a struct: a key of the right kind sets its field, a
\* key of another kind leaves the field alone and makes Decode return an
\* UnmarshalTypeError, a key that is not there leaves the zero value
Decode(schema, f) ==
  [fields |-> [k \in DOMAIN schema |->
                 IF f[k].kind = schema[k] THEN Val(f[k]) ELSE Zero(schema[k])],
   err |-> IF \E k \in DOMAIN schema : f[k].kind \notin {"missing", schema[k]}
           THEN "UnmarshalTypeError" ELSE None]

\* what a loader returns, or the panic it dies of
Ret(c, e) == [cfg |-> c, err |-> e, panic |-> FALSE]
Panic == [cfg |-> Nil, err |-> None, panic |-> TRUE]

\* backend config.LoadFromFile; Decode(&config) on the JSON null sets the
\* pointer config to nil and returns no error
BackendLoadFromFile(doc) ==
  IF doc.kind = "absent" THEN Ret(Nil, "open")
  ELSE IF doc.kind = "malformed" THEN Ret(Nil, "parse")
  ELSE IF doc.kind = "null" THEN Ret(Nil, None)
  ELSE IF Decode(BackendSchema, doc.fields).err # None THEN Ret(Nil, "parse")
  ELSE Ret([Port |-> Decode(BackendSchema, doc.fields).fields.port,
            ServiceName |-> Decode(BackendSchema, doc.fields).fields.name], None)

\* backend config.LoadFromEnv
BackendLoadFromEnv(e) ==
  IF ~e.SERVICE_NAME.ok THEN Ret(Nil, "lookup")
  ELSE IF ~e.SERVICE_PORT.ok THEN Ret(Nil, "lookup")
  ELSE IF Atoi(e.SERVICE_PORT.val).err # None THEN Ret(Nil, "atoi")
  ELSE Ret([Port |-> Atoi(e.SERVICE_PORT.val).n, ServiceName |-> e.SERVICE_NAME.val], None)

\* the balancer's Config from decoded fields
BalancerConfig(name, port, lbport, method) ==
  [BackendName |-> name, BackendPort |-> port,
   LoadbalancerPort |-> lbport, LoadbalancerMethod |-> method]

\* mutant: the error of cfg.validate() is dropped
BalancerLoadFromFileUnchecked(doc) ==
  IF doc.kind = "absent" THEN Ret(Nil, "open")
  ELSE IF doc.kind = "malformed" THEN Ret(Nil, "parse")
  ELSE IF doc.kind = "null" THEN Panic
  ELSE IF Decode(BalancerSchema, doc.fields).err # None THEN Ret(Nil, "parse")
  ELSE LET d == Decode(BalancerSchema, doc.fields).fields
       IN Ret(BalancerConfig(d.backendname, d.backendport, d.loadbalancerport,
                             d.loadbalancermethod), None)

\* balancer config.LoadFromFile; after Decode(&cfg) on the JSON null the
\* pointer cfg is nil and cfg.validate() dereferences it
BalancerLoadFromFile(doc) ==
  IF doc.kind = "absent" THEN Ret(Nil, "open")
  ELSE IF doc.kind = "malformed" THEN Ret(Nil, "parse")
  ELSE IF doc.kind = "null" THEN Panic
  ELSE IF Decode(BalancerSchema, doc.fields).err # None THEN Ret(Nil, "parse")
  ELSE LET d == Decode(BalancerSchema, doc.fields).fields
           c == BalancerConfig(d.backendname, d.backendport, d.loadbalancerport,
                               d.loadbalancermethod)
       IN IF validate(c) # None THEN Ret(Nil, validate(c)) ELSE Ret(c, None)

\* balancer config.LoadFromEnv
BalancerLoadFromEnv(e) ==
  IF ~e.BACKEND_NAME.ok THEN Ret(Nil, "lookup")
  ELSE IF ~e.BACKEND_PORT.ok THEN Ret(Nil, "lookup")
  ELSE IF Atoi(e.BACKEND_PORT.val).err # None THEN Ret(Nil, "atoi")
  ELSE IF ~e.LOADBALANCER_PORT.ok THEN Ret(Nil, "lookup")
  ELSE IF Atoi(e.LOADBALANCER_PORT.val).err # None THEN Ret(Nil, "atoi")
  ELSE IF ~e.LOADBALANCER_METHOD.ok THEN Ret(Nil, "lookup")
  ELSE LET c == BalancerConfig(e.BACKEND_NAME.val, Atoi(e.BACKEND_PORT.val).n,
                               Atoi(e.LOADBALANCER_PORT.val).n, e.LOADBALANCER_METHOD.val)
       IN IF validate(c) # None THEN Ret(Nil, validate(c)) ELSE Ret(c, None)

\* the files a loader may find
JSONValues == {Missing, Num(8080), Str("8080"), Str(StrategyRoundRobin), Str("LeastConn")}
BackendFiles ==
  {DocAbsent, DocMalformed, DocNull} \cup {DocObject(f) : f \in [DOMAIN BackendSchema -> JSONValues]}
BalancerFiles ==
  {DocAbsent, DocMalformed, DocNull} \cup {DocObject(f) : f \in [DOMAIN BalancerSchema -> JSONValues]}

\* the environments a loader may find
BackendEnvs ==
  [SERVICE_NAME : {Unset, Var("myservice")},
   SERVICE_PORT : {Unset} \cup {Var(x) : x \in {"1234", "1234a", "", "-1", "+80"}}]
BalancerEnvs ==
  [BACKEND_NAME : {Unset, Var(ServiceName)},
   BACKEND_PORT : {Unset, Var("8080"), Var("80a")},
   LOADBALANCER_PORT : {Unset, Var("9090"), Var("x")},
   LOADBALANCER_METHOD : {Unset} \cup {Var(m) : m \in Methods}]

\* -------------------------------------------------------------------- slices
\* a nil slice has no backing array
NilSlice == 0

Addrs == 1..MaxAddr

\* the elements of the slice whose backing array is at a
Content(a) == IF a = NilSlice THEN <<>> ELSE heap[a]

\* NewBackendList: bl.backends is nil, nothing is allocated
InitSlices ==
  /\ heap = [a \in Addrs |-> <<>>]
  /\ brk = 0
  /\ blref = NilSlice
  /\ snap = [t \in Tasks |-> NilSlice]
  /\ wrote = {}

\* NewServiceHandler leaves Count at its zero value; no request is being served
InitService ==
  /\ Count = 0
  /\ spc = [t \in Tasks |-> "idle"]
  /\ count = [t \in Tasks |-> 0]
  /\ reply = [t \in Tasks |-> Nil]
  /\ pings = 0
  /\ nth = [t \in Tasks |-> 0]
  /\ reported = <<>>

\* no loader has been called
InitLoaders ==
  /\ called = Nil
  /\ loaded = Nil

\* no request has a context yet, no backend connection exists
InitTransport ==
  /\ ctxDone = [t \in Tasks |-> FALSE]
  /\ conn = [t \in Tasks |-> "none"]

\* no request is inside bh.Requests++
InitCounter ==
  /\ reg = [t \in Tasks |-> 0]
  /\ obtained = <<>>

\* no request has selected a backend
InitRotation == picked = [c \in 1..MaxRequests |-> Nil]

\* the informer has delivered nothing
InitFeed == verb = None

Instances == 1..NumReplicas

\* each instance starts like the one process above: NewBackendList and
\* NewBalanceHandler, nothing delivered, no request received
InitReplicas ==
  /\ stream = <<>>
  /\ replica = [i \in Instances |->
                  [backends |-> <<>>, Requests |-> 0, rpc |-> "idle", rbackends |-> <<>>,
                   consumed |-> 0, crashed |-> FALSE, pc |-> "idle", requests |-> 0,
                   target |-> Nil, outcome |-> None, received |-> 0]]

\* main waits in <-quit: stopCh is made and open, the server listens, the
\* goroutine of the shutdown waits in <-stopCh
InitShutdown ==
  /\ quit = FALSE
  /\ stopCh = "open"
  /\ shutter = "waitStop"
  /\ listener = "listening"
  /\ informing = TRUE
  /\ active = {}
  /\ killed = {}

InitBeside ==
  /\ InitSlices /\ InitService /\ InitLoaders /\ InitTransport /\ InitCounter
  /\ InitRotation /\ InitFeed /\ InitReplicas /\ InitShutdown

\* ---------------------------------------------------------------------- init
Init ==
  /\ backends = <<>>
  /\ blmu = [w |-> {}, r |-> {}, p |-> {}]
  /\ Requests = 0
  /\ bhmu = [w |-> {}, r |-> {}, p |-> {}]
  /\ pc = [t \in Tasks |-> "idle"]
  /\ route = [t \in Tasks |-> None]
  /\ urlPath = [t \in Tasks |-> None]
  /\ requests = [t \in Tasks |-> 0]
  /\ result = [t \in Tasks |-> <<>>]
  /\ target = [t \in Tasks |-> Nil]
  /\ attempts = [t \in Tasks |-> <<>>]
  /\ outcome = [t \in Tasks |-> None]
  /\ url = [t \in Tasks |-> Nil]
  /\ body = [t \in Tasks |-> Nil]
  /\ rpc = "idle"
  /\ endpoints = Nil
  /\ rbackends = <<>>
  /\ delivered = 0
  /\ crashed = FALSE
  /\ log = <<>>
  /\ dispatched = 0
  /\ seen = [t \in Tasks |-> {}]
  /\ lastNext = Nil
  /\ expect = [t \in Tasks |-> Nil]
  /\ mainpc = "serving"
  /\ pathIdx = Len(ConfigPaths)
  /\ cfg = Config(StrategyRoundRobin)
  /\ err = None
  /\ Strategy = NewStrategy(StrategyRoundRobin)
  /\ offered = <<StrategyRoundRobin>>
  /\ InitBeside

\* a next-backend call in flight whose counter or set changed under it
Disturbed == [disturbed |-> TRUE]

\* history kept for the handlers in flight when the counter or the set changes
Disturb(t) ==
  IF pc[t] \in {"GetAll", "GetAllCopy", "selectBackend"} /\ route[t] = "nextBackend"
  THEN Disturbed ELSE expect[t]

\* ------------------------------------------------------------ informer side
\* mutant: the new records are merged into the old slice
Merged(old, new) == old \o new

\* mutant: replacing the set with an equal one clears it
Toggled(old, new) == IF old = new THEN <<>> ELSE new

\* mutant: a shorter membership is ignored
Coalesced(old, new) == IF Len(new) < Len(old) THEN old ELSE new

\* bl.backends = backends: the whole slice is replaced
Replaced(old, new) == new

\* mutant: Replace waits until no request is being forwarded
ReplaceLockWaitsForRequests ==
  /\ ~crashed /\ rpc = "Replace"
  /\ CanLock(blmu)
  /\ \A t \in Tasks : pc[t] \notin {"forward", "ErrorHandler"}
  /\ blmu' = Lock(blmu, Informer)
  /\ rpc' = "ReplaceAssign"
  /\ UNCHANGED <<startup, beside, rotation, urlPath, backends, Requests, bhmu, pc, route, requests, result, target,
                 attempts, outcome, url, body, endpoints, rbackends, delivered, crashed, log,
                 history>>

\* BackendList.Replace, bl.mu.Lock()
ReplaceLock ==
  /\ ~crashed /\ rpc = "Replace"
  /\ CanLock(blmu)
  /\ blmu' = Lock(blmu, Informer)
  /\ rpc' = "ReplaceAssign"
  /\ UNCHANGED <<startup, beside, rotation, urlPath, backends, Requests, bhmu, pc, route, requests, result, target,
                 attempts, outcome, url, body, endpoints, rbackends, delivered, crashed, log,
                 history>>

\* mutant: replacing the set restarts the rotation
ReplaceAssignResetsCounter ==
  /\ ~crashed /\ rpc = "ReplaceAssign"
  /\ backends' = Replaced(backends, rbackends)
  /\ Requests' = 0
  /\ blmu' = Unlock(blmu, Informer)
  /\ rpc' = "idle"
  /\ endpoints' = Nil
  /\ rbackends' = <<>>
  /\ seen' = [t \in Tasks |-> IF pc[t] \in InGetAll THEN seen[t] \cup {backends'} ELSE seen[t]]
  /\ lastNext' = Nil
  /\ expect' = [t \in Tasks |-> IF route[t] = "Proxy" THEN Nil ELSE Disturb(t)]
  /\ UNCHANGED <<startup, beside, rotation, urlPath, bhmu, pc, route, locals, delivered, crashed, log, dispatched>>

\* mutant: Replace writes through the slice the handlers were handed
ReplaceAssignInPlace ==
  /\ ~crashed /\ rpc = "ReplaceAssign"
  /\ backends' = Replaced(backends, rbackends)
  /\ result' = [t \in Tasks |-> Copy(result[t], rbackends)]
  /\ blmu' = Unlock(blmu, Informer)
  /\ rpc' = "idle"
  /\ endpoints' = Nil
  /\ rbackends' = <<>>
  /\ seen' = [t \in Tasks |-> IF pc[t] \in InGetAll THEN seen[t] \cup {backends'} ELSE seen[t]]
  /\ lastNext' = Nil
  /\ expect' = [t \in Tasks |-> IF route[t] = "Proxy" THEN Nil ELSE Disturb(t)]
  /\ UNCHANGED <<startup, beside, rotation, urlPath, Requests, bhmu, pc, route, requests, target, attempts, outcome, url,
                 body, delivered, crashed, log, dispatched>>

\* BackendList.Replace, bl.backends = backends, then the deferred bl.mu.Unlock()
\* and the return of Replace and of reconcile
ReplaceAssign ==
  /\ ~crashed /\ rpc = "ReplaceAssign"
  /\ backends' = Replaced(backends, rbackends)
  /\ blmu' = Unlock(blmu, Informer)
  /\ rpc' = "idle"
  /\ endpoints' = Nil
  /\ rbackends' = <<>>
  /\ seen' = [t \in Tasks |-> IF pc[t] \in InGetAll THEN seen[t] \cup {backends'} ELSE seen[t]]
  /\ lastNext' = Nil
  /\ expect' = [t \in Tasks |-> IF route[t] = "Proxy" THEN Nil ELSE Disturb(t)]
  /\ UNCHANGED <<startup, beside, rotation, urlPath, Requests, bhmu, pc, route, locals, delivered, crashed, log,
                 dispatched>>

\* mutant: reconcile without the comparison of the names
reconcileAnyName(e) ==
  IF ReconcilePanics(e)
  THEN crashed' = TRUE /\ UNCHANGED <<rpc, endpoints, rbackends, blmu>>
  ELSE /\ rbackends' = AppendSubsets(<<>>, e.Subsets)
       /\ endpoints' = e
       /\ rpc' = "Replace"
       /\ blmu' = Pending(blmu, Informer)
       /\ UNCHANGED crashed

\* reconcile up to the call of bl.mu.Lock() in Replace
reconcile(e) ==
  IF e.Name # ServiceName
  THEN UNCHANGED <<rpc, endpoints, rbackends, crashed, blmu>>
  ELSE IF ReconcilePanics(e)
  THEN crashed' = TRUE /\ UNCHANGED <<rpc, endpoints, rbackends, blmu>>
  ELSE /\ rbackends' = AppendSubsets(<<>>, e.Subsets)
       /\ endpoints' = e
       /\ rpc' = "Replace"
       /\ blmu' = Pending(blmu, Informer)
       /\ UNCHANGED crashed

\* the body shared by the three callbacks: the type assertion, then reconcile
EventHandlerStep(obj) ==
  /\ ~crashed /\ rpc = "idle"
  /\ delivered < MaxEvents
  /\ delivered' = delivered + 1
  /\ log' = Append(log, obj)
  /\ IF ~obj.IsEndpoints
     THEN UNCHANGED <<rpc, endpoints, rbackends, crashed, blmu>>
     ELSE reconcile(obj)
  /\ UNCHANGED <<startup, apart, replicas, shutdown, rotation, urlPath, backends, Requests, bhmu, pc, route, requests, result, target,
                 attempts, outcome, url, body, history>>

EventHandler(obj) == EventHandlerStep(obj) /\ UNCHANGED feed

AddFunc(obj) == EventHandler(obj)

UpdateFunc(obj) == EventHandler(obj)

DeleteFunc(obj) == EventHandler(obj)

\* -------------------------------------------------------------- handler side
\* mutant: only "/status" is registered beside the catch-all
MuxStatusOnly(path) ==
  IF path = "/status" THEN "status"
  ELSE "Proxy"

\* http.ServeMux with the patterns of Register: two exact paths, "/" for the rest
Mux(path) ==
  IF path = "/status" THEN "status"
  ELSE IF path = "/next-backend" THEN "nextBackend"
  ELSE "Proxy"

\* mutant: the counter is bumped twice per request
IncrementTwice(n) == n + 2

\* bh.Requests++ on an int: the value after the largest is the smallest
Increment(n) == Wrap(n + 1)

\* a request arrives and the mux hands it to its handler; the proxy's Rewrite
\* starts with the call of bh.mu.Lock()
Serve(t, p) ==
  /\ ~crashed /\ pc[t] = "idle"
  /\ Mux(p) = "Proxy" => dispatched < MaxRequests
  /\ route' = [route EXCEPT ![t] = Mux(p)]
  /\ pc' = [pc EXCEPT ![t] = IF Mux(p) = "status" THEN "GetAll"
                             ELSE IF Mux(p) = "nextBackend" THEN "nextBackend"
                             ELSE "Rewrite"]
  /\ dispatched' = IF Mux(p) = "Proxy" THEN dispatched + 1 ELSE dispatched
  /\ bhmu' = IF Mux(p) = "Proxy" THEN Pending(bhmu, t) ELSE bhmu
  /\ urlPath' = [urlPath EXCEPT ![t] = p]
  /\ UNCHANGED <<startup, beside, rotation, registry, Requests, locals, informer, seen, lastNext, expect>>

\* Rewrite, bh.mu.Lock()
RewriteLock(t) ==
  /\ ~crashed /\ pc[t] = "Rewrite"
  /\ CanLock(bhmu)
  /\ bhmu' = Lock(bhmu, t)
  /\ pc' = [pc EXCEPT ![t] = "RewriteInc"]
  /\ UNCHANGED <<startup, beside, rotation, urlPath, registry, Requests, route, locals, informer, history>>

\* mutant: Rewrite calls selectBackend before releasing the counter's lock
RewriteIncKeepsLock(t) ==
  /\ ~crashed /\ pc[t] = "RewriteInc"
  /\ Requests' = Increment(Requests)
  /\ requests' = [requests EXCEPT ![t] = Requests']
  /\ pc' = [pc EXCEPT ![t] = "GetAll"]
  /\ lastNext' = Nil
  /\ expect' = [u \in Tasks |-> IF u = t THEN lastNext ELSE Disturb(u)]
  /\ UNCHANGED <<startup, beside, rotation, urlPath, registry, bhmu, route, result, target, attempts, outcome, url, body,
                 informer, dispatched, seen>>

\* Rewrite, bh.Requests++, requests := bh.Requests and bh.mu.Unlock(); then the
\* call of selectBackend enters GetAll
RewriteInc(t) ==
  /\ ~crashed /\ pc[t] = "RewriteInc"
  /\ Requests' = Increment(Requests)
  /\ requests' = [requests EXCEPT ![t] = Requests']
  /\ bhmu' = Unlock(bhmu, t)
  /\ pc' = [pc EXCEPT ![t] = "GetAll"]
  /\ lastNext' = Nil
  /\ expect' = [u \in Tasks |-> IF u = t THEN lastNext ELSE Disturb(u)]
  /\ UNCHANGED <<startup, beside, rotation, urlPath, registry, route, result, target, attempts, outcome, url, body,
                 informer, dispatched, seen>>

\* nextBackend, bh.mu.RLock()
NextBackendRLock(t) ==
  /\ ~crashed /\ pc[t] = "nextBackend"
  /\ CanRLock(bhmu)
  /\ bhmu' = RLock(bhmu, t)
  /\ pc' = [pc EXCEPT ![t] = "nextBackendRead"]
  /\ UNCHANGED <<startup, beside, rotation, urlPath, registry, Requests, route, locals, informer, history>>

\* mutant: the diagnostic consumes a counter value
NextBackendReadIncrements(t) ==
  /\ ~crashed /\ pc[t] = "nextBackendRead"
  /\ Requests' = Requests + 1
  /\ requests' = [requests EXCEPT ![t] = Requests']
  /\ bhmu' = RUnlock(bhmu, t)
  /\ pc' = [pc EXCEPT ![t] = "GetAll"]
  /\ expect' = [expect EXCEPT ![t] = lastNext]
  /\ UNCHANGED <<startup, beside, rotation, urlPath, registry, route, result, target, attempts, outcome, url, body,
                 informer, dispatched, seen, lastNext>>

\* nextBackend, requests := bh.Requests and bh.mu.RUnlock(); then the call of
\* selectBackend enters GetAll
NextBackendRead(t) ==
  /\ ~crashed /\ pc[t] = "nextBackendRead"
  /\ requests' = [requests EXCEPT ![t] = Requests]
  /\ bhmu' = RUnlock(bhmu, t)
  /\ pc' = [pc EXCEPT ![t] = "GetAll"]
  /\ expect' = [expect EXCEPT ![t] = lastNext]
  /\ UNCHANGED <<startup, beside, rotation, urlPath, registry, Requests, route, result, target, attempts, outcome, url,
                 body, informer, dispatched, seen, lastNext>>

\* GetAll, bl.mu.RLock() and result := make([]Backend, len(bl.backends))
GetAllRLock(t) ==
  /\ ~crashed /\ pc[t] = "GetAll"
  /\ CanRLock(blmu)
  /\ blmu' = RLock(blmu, t)
  /\ result' = [result EXCEPT ![t] = [i \in 1..Len(backends) |-> ZeroBackend]]
  /\ pc' = [pc EXCEPT ![t] = "GetAllCopy"]
  /\ seen' = [seen EXCEPT ![t] = {backends}]
  /\ UNCHANGED <<startup, beside, rotation, urlPath, backends, Requests, bhmu, route, requests, target, attempts, outcome,
                 url, body, informer, dispatched, lastNext, expect>>

\* mutant: GetAll returns without releasing the read lock
GetAllCopyKeepsLock(t) ==
  /\ ~crashed /\ pc[t] = "GetAllCopy"
  /\ result' = [result EXCEPT ![t] = Copy(result[t], backends)]
  /\ pc' = [pc EXCEPT ![t] = IF route[t] = "status" THEN "status" ELSE "selectBackend"]
  /\ UNCHANGED <<startup, beside, rotation, urlPath, registry, Requests, bhmu, route, requests, target, attempts, outcome,
                 url, body, informer, history>>

\* GetAll, copy(result, bl.backends), the deferred bl.mu.RUnlock() and the return
\* of result to the caller
GetAllCopy(t) ==
  /\ ~crashed /\ pc[t] = "GetAllCopy"
  /\ result' = [result EXCEPT ![t] = Copy(result[t], backends)]
  /\ blmu' = RUnlock(blmu, t)
  /\ pc' = [pc EXCEPT ![t] = IF route[t] = "status" THEN "status" ELSE "selectBackend"]
  /\ UNCHANGED <<startup, beside, rotation, urlPath, backends, Requests, bhmu, route, requests, target, attempts, outcome,
                 url, body, informer, history>>

\* fmt.Sprintf("%s:%d", backend.Address, bh.BackendPort)
Host(b) == [Address |-> b.Address, Port |-> BackendPort]

\* selectBackend in Rewrite: Strategy.Next on the snapshot GetAll returned. A
\* panic of Next unwinds the handler goroutine; net/http recovers it and drops
\* the connection without a response.
RewriteSelectStep(t) ==
  /\ ~crashed /\ pc[t] = "selectBackend" /\ route[t] = "Proxy"
  /\ IF RoundRobinNextPanics(result[t], requests[t])
     THEN /\ outcome' = [outcome EXCEPT ![t] = "panic"]
          /\ pc' = [pc EXCEPT ![t] = "done"]
          /\ requests' = [requests EXCEPT ![t] = 0]
          /\ result' = [result EXCEPT ![t] = <<>>]
          /\ expect' = [expect EXCEPT ![t] = Nil]
          /\ UNCHANGED target
     ELSE /\ target' = [target EXCEPT ![t] = RoundRobinNext(result[t], requests[t])]
          /\ pc' = [pc EXCEPT ![t] = "SetURL"]
          /\ UNCHANGED <<requests, result, outcome, expect>>
  /\ seen' = [seen EXCEPT ![t] = {}]
  /\ UNCHANGED <<startup, beside, urlPath, registry, Requests, bhmu, route, attempts, url, body, informer,
                 dispatched, lastNext>>

RewriteSelect(t) == RewriteSelectStep(t) /\ UNCHANGED rotation

\* Rewrite, host, url.Parse and pr.SetURL(url); Rewrite returns and its locals
\* go out of scope
RewriteSetURL(t) ==
  /\ ~crashed /\ pc[t] = "SetURL"
  /\ url' = [url EXCEPT ![t] = Host(target[t])]
  /\ pc' = [pc EXCEPT ![t] = "forward"]
  /\ requests' = [requests EXCEPT ![t] = 0]
  /\ result' = [result EXCEPT ![t] = <<>>]
  /\ target' = [target EXCEPT ![t] = Nil]
  /\ expect' = [expect EXCEPT ![t] = Nil]
  /\ UNCHANGED <<startup, beside, rotation, urlPath, registry, Requests, bhmu, route, attempts, outcome, body, informer,
                 dispatched, seen, lastNext>>

\* selectBackend in nextBackend: Strategy.Next on the snapshot GetAll returned
NextBackendSelect(t) ==
  /\ ~crashed /\ pc[t] = "selectBackend" /\ route[t] = "nextBackend"
  /\ IF RoundRobinNextPanics(result[t], requests[t])
     THEN /\ outcome' = [outcome EXCEPT ![t] = "panic"]
          /\ pc' = [pc EXCEPT ![t] = "done"]
          /\ requests' = [requests EXCEPT ![t] = 0]
          /\ result' = [result EXCEPT ![t] = <<>>]
          /\ expect' = [expect EXCEPT ![t] = Nil]
          /\ lastNext' = Nil
          /\ UNCHANGED target
     ELSE /\ target' = [target EXCEPT ![t] = RoundRobinNext(result[t], requests[t])]
          /\ pc' = [pc EXCEPT ![t] = "writeJSON"]
          /\ lastNext' = IF expect[t] = Disturbed THEN Nil ELSE target'[t]
          /\ UNCHANGED <<requests, result, outcome, expect>>
  /\ seen' = [seen EXCEPT ![t] = {}]
  /\ UNCHANGED <<startup, beside, rotation, urlPath, registry, Requests, bhmu, route, attempts, url, body, informer,
                 dispatched>>

\* nextBackend, NextResponse and writeJSON(w, http.StatusOK, next)
NextBackendWrite(t) ==
  /\ ~crashed /\ pc[t] = "writeJSON"
  /\ body' = [body EXCEPT ![t] = [NextHost |-> Host(target[t])]]
  /\ outcome' = [outcome EXCEPT ![t] = "200"]
  /\ pc' = [pc EXCEPT ![t] = "done"]
  /\ requests' = [requests EXCEPT ![t] = 0]
  /\ result' = [result EXCEPT ![t] = <<>>]
  /\ target' = [target EXCEPT ![t] = Nil]
  /\ expect' = [expect EXCEPT ![t] = Nil]
  /\ UNCHANGED <<startup, beside, rotation, urlPath, registry, Requests, bhmu, route, attempts, url, informer,
                 dispatched, seen, lastNext>>

\* mutant: the count reported is one more than the snapshot's length
StatusCountsOneMore(t) ==
  /\ ~crashed /\ pc[t] = "status"
  /\ body' = [body EXCEPT ![t] = [ConnectedHosts |-> Len(result[t]) + 1]]
  /\ outcome' = [outcome EXCEPT ![t] = "200"]
  /\ pc' = [pc EXCEPT ![t] = "done"]
  /\ result' = [result EXCEPT ![t] = <<>>]
  /\ seen' = [seen EXCEPT ![t] = {}]
  /\ UNCHANGED <<startup, beside, rotation, urlPath, registry, Requests, bhmu, route, requests, target, attempts, url,
                 informer, dispatched, lastNext, expect>>

\* status from the return of GetAll: ConnectedHosts is the snapshot's length
Status(t) ==
  /\ ~crashed /\ pc[t] = "status"
  /\ body' = [body EXCEPT ![t] = [ConnectedHosts |-> Len(result[t])]]
  /\ outcome' = [outcome EXCEPT ![t] = "200"]
  /\ pc' = [pc EXCEPT ![t] = "done"]
  /\ result' = [result EXCEPT ![t] = <<>>]
  /\ seen' = [seen EXCEPT ![t] = {}]
  /\ UNCHANGED <<startup, beside, rotation, urlPath, registry, Requests, bhmu, route, requests, target, attempts, url,
                 informer, dispatched, lastNext, expect>>

\* ReverseProxy's transport round trip to the rewritten URL: the backend answers
\* and its response is copied to the caller, or the round trip fails
RoundTrip(t, ok) ==
  /\ ~crashed /\ pc[t] = "forward"
  /\ attempts' = [attempts EXCEPT ![t] = Append(@, url[t])]
  /\ IF ok
     THEN /\ outcome' = [outcome EXCEPT ![t] = "forwarded"]
          /\ pc' = [pc EXCEPT ![t] = "done"]
     ELSE /\ pc' = [pc EXCEPT ![t] = "ErrorHandler"]
          /\ UNCHANGED outcome
  /\ UNCHANGED <<startup, beside, rotation, urlPath, registry, Requests, bhmu, route, requests, result, target, url, body,
                 informer, history>>

\* mutant: a failed round trip is retried against the first backend
ErrorHandlerRetries(t) ==
  /\ ~crashed /\ pc[t] = "ErrorHandler"
  /\ IF Len(attempts[t]) < 2 /\ backends # <<>>
     THEN /\ url' = [url EXCEPT ![t] = Host(backends[1])]
          /\ pc' = [pc EXCEPT ![t] = "forward"]
          /\ UNCHANGED outcome
     ELSE /\ outcome' = [outcome EXCEPT ![t] = "502"]
          /\ pc' = [pc EXCEPT ![t] = "done"]
          /\ UNCHANGED url
  /\ UNCHANGED <<startup, beside, rotation, urlPath, registry, Requests, bhmu, route, requests, result, target, attempts,
                 body, informer, history>>

\* ErrorHandler: w.WriteHeader(http.StatusBadGateway)
ErrorHandler(t) ==
  /\ ~crashed /\ pc[t] = "ErrorHandler"
  /\ outcome' = [outcome EXCEPT ![t] = "502"]
  /\ pc' = [pc EXCEPT ![t] = "done"]
  /\ UNCHANGED <<startup, beside, rotation, urlPath, registry, Requests, bhmu, route, requests, result, target, attempts,
                 url, body, informer, history>>

\* the handler goroutine is done with the request and takes the next one
Finish(t) ==
  /\ ~crashed /\ pc[t] = "done"
  /\ pc' = [pc EXCEPT ![t] = "idle"]
  /\ route' = [route EXCEPT ![t] = None]
  /\ urlPath' = [urlPath EXCEPT ![t] = None]
  /\ attempts' = [attempts EXCEPT ![t] = <<>>]
  /\ outcome' = [outcome EXCEPT ![t] = None]
  /\ url' = [url EXCEPT ![t] = Nil]
  /\ body' = [body EXCEPT ![t] = Nil]
  /\ UNCHANGED <<startup, beside, rotation, registry, Requests, bhmu, requests, result, target, informer, history>>

\* ------------------------------------------------------------- specification
Next ==
  \/ \E obj \in Events : AddFunc(obj)
  \/ \E obj \in Events : UpdateFunc(obj)
  \/ \E obj \in Events : DeleteFunc(obj)
  \/ ReplaceLock
  \/ ReplaceAssign
  \/ \E t \in Tasks, p \in Paths : Serve(t, p)
  \/ \E t \in Tasks : RewriteLock(t)
  \/ \E t \in Tasks : RewriteInc(t)
  \/ \E t \in Tasks : NextBackendRLock(t)
  \/ \E t \in Tasks : NextBackendRead(t)
  \/ \E t \in Tasks : GetAllRLock(t)
  \/ \E t \in Tasks : GetAllCopy(t)
  \/ \E t \in Tasks : RewriteSelect(t)
  \/ \E t \in Tasks : RewriteSetURL(t)
  \/ \E t \in Tasks : NextBackendSelect(t)
  \/ \E t \in Tasks : NextBackendWrite(t)
  \/ \E t \in Tasks : Status(t)
  \/ \E t \in Tasks, ok \in BOOLEAN : RoundTrip(t, ok)
  \/ \E t \in Tasks : ErrorHandler(t)
  \/ \E t \in Tasks : Finish(t)

Spec == Init /\ [][Next]_vars

\* ------------------------------------------------- scheduling and progress
\* a handler's call of Lock or RLock returns
Acquire(t) == RewriteLock(t) \/ NextBackendRLock(t) \/ GetAllRLock(t)

\* a handler's next statement that waits for nothing
Step(t) ==
  \/ RewriteInc(t) \/ NextBackendRead(t) \/ GetAllCopy(t)
  \/ RewriteSelect(t) \/ NextBackendSelect(t)

\* Scheduling: a goroutine that can take its next step takes it. A goroutine
\* waiting in Lock or RLock gets the lock if it is free again and again
\* (sync.RWMutex starves neither writers nor readers). Nothing obliges a
\* request to arrive, a notification to be delivered, or a backend to answer:
\* Serve, the callbacks and RoundTrip carry no fairness.
Fairness ==
  /\ SF_vars(ReplaceLock)
  /\ WF_vars(ReplaceAssign)
  /\ \A t \in Tasks : SF_vars(Acquire(t)) /\ WF_vars(Step(t))

\* the notifications that change the set
LiveEvents == {e \in Events : e.IsEndpoints /\ e.Name = ServiceName /\ ~ReconcilePanics(e)}

\* the load under which progress is checked
\* the paths of the requests of the load: one for each pattern of Register
LivePaths == {"/status", "/next-backend", "/"}

LiveLoad ==
  /\ delivered <= MaxLiveEvents /\ dispatched <= MaxLiveRequests
  /\ \A i \in 1..Len(log) : log[i] \in LiveEvents

NextLive ==
  \/ \E obj \in Events : AddFunc(obj) /\ LiveLoad'
  \/ \E obj \in Events : UpdateFunc(obj) /\ LiveLoad'
  \/ \E obj \in Events : DeleteFunc(obj) /\ LiveLoad'
  \/ ReplaceLock
  \/ ReplaceAssign
  \/ \E t \in Tasks, p \in LivePaths : Serve(t, p) /\ LiveLoad'
  \/ \E t \in Tasks : RewriteLock(t)
  \/ \E t \in Tasks : RewriteInc(t)
  \/ \E t \in Tasks : NextBackendRLock(t)
  \/ \E t \in Tasks : NextBackendRead(t)
  \/ \E t \in Tasks : GetAllRLock(t)
  \/ \E t \in Tasks : GetAllCopy(t)
  \/ \E t \in Tasks : RewriteSelect(t)
  \/ \E t \in Tasks : RewriteSetURL(t)
  \/ \E t \in Tasks : NextBackendSelect(t)
  \/ \E t \in Tasks : NextBackendWrite(t)
  \/ \E t \in Tasks : Status(t)
  \/ \E t \in Tasks, ok \in BOOLEAN : RoundTrip(t, ok)
  \/ \E t \in Tasks : ErrorHandler(t)
  \/ \E t \in Tasks : Finish(t)

SpecLive == Init /\ [][NextLive]_vars /\ Fairness

\* ------------------------------------------------------------------ startup
\* the state when main begins: nothing is loaded, nothing is constructed
InitStartup ==
  /\ backends = <<>>
  /\ blmu = [w |-> {}, r |-> {}, p |-> {}]
  /\ Requests = 0
  /\ bhmu = [w |-> {}, r |-> {}, p |-> {}]
  /\ pc = [t \in Tasks |-> "idle"]
  /\ route = [t \in Tasks |-> None]
  /\ urlPath = [t \in Tasks |-> None]
  /\ requests = [t \in Tasks |-> 0]
  /\ result = [t \in Tasks |-> <<>>]
  /\ target = [t \in Tasks |-> Nil]
  /\ attempts = [t \in Tasks |-> <<>>]
  /\ outcome = [t \in Tasks |-> None]
  /\ url = [t \in Tasks |-> Nil]
  /\ body = [t \in Tasks |-> Nil]
  /\ rpc = "idle"
  /\ endpoints = Nil
  /\ rbackends = <<>>
  /\ delivered = 0
  /\ crashed = FALSE
  /\ log = <<>>
  /\ dispatched = 0
  /\ seen = [t \in Tasks |-> {}]
  /\ lastNext = Nil
  /\ expect = [t \in Tasks |-> Nil]
  /\ mainpc = "LoadFromFile"
  /\ pathIdx = 1
  /\ cfg = Nil
  /\ err = None
  /\ Strategy = None
  /\ offered = <<>>
  /\ InitBeside

\* main, one round of the loop over paths: LoadFromFile, break on success
MainLoadFromFile(content) ==
  /\ mainpc = "LoadFromFile"
  /\ cfg' = LoadFromFile(content).cfg
  /\ err' = LoadFromFile(content).err
  /\ offered' = offered \o Carried(content)
  /\ IF err' = None THEN mainpc' = "NewBalanceHandler" /\ UNCHANGED pathIdx
     ELSE IF pathIdx < Len(ConfigPaths) THEN pathIdx' = pathIdx + 1 /\ UNCHANGED mainpc
     ELSE mainpc' = "LoadFromEnv" /\ UNCHANGED pathIdx
  /\ UNCHANGED <<beside, rotation, urlPath, registry, Requests, bhmu, pc, route, locals, informer, history,
                 Strategy>>

\* main, after the loop: LoadFromEnv, and log.Fatal if that fails too
MainLoadFromEnv(e) ==
  /\ mainpc = "LoadFromEnv"
  /\ cfg' = LoadFromEnv(e).cfg
  /\ err' = LoadFromEnv(e).err
  /\ offered' = offered \o Carried(e)
  /\ mainpc' = IF err' = None THEN "NewBalanceHandler" ELSE "fatal"
  /\ UNCHANGED <<beside, rotation, urlPath, registry, Requests, bhmu, pc, route, locals, informer, history,
                 pathIdx,
                 Strategy>>

\* main, NewBalanceHandler with the loaded configuration; the server starts
NewBalanceHandler ==
  /\ mainpc = "NewBalanceHandler"
  /\ Strategy' = NewStrategy(cfg.LoadbalancerMethod)
  /\ mainpc' = "serving"
  /\ UNCHANGED <<beside, rotation, urlPath, registry, Requests, bhmu, pc, route, locals, informer, history,
                 pathIdx,
                 cfg, err, offered>>

NextStartup ==
  \/ \E content \in FileContents : MainLoadFromFile(content)
  \/ \E e \in Environments : MainLoadFromEnv(e)
  \/ NewBalanceHandler

SpecStartup == InitStartup /\ [][NextStartup]_vars

\* ----------------------------------------------- the slices behind the set
everythingElse ==
  <<rotation, feed, replicas, shutdown, urlPath, registry, Requests, bhmu, pc, route, locals, informer, history, startup>>

\* mutant: GetAll hands out bl.backends itself
SliceGetAllAliases(t) ==
  /\ snap' = [snap EXCEPT ![t] = blref]
  /\ wrote' = wrote \ {t}
  /\ UNCHANGED <<heap, brk, blref, everythingElse, service, loaders, transport, counter>>

\* GetAll: make allocates a backing array of len(bl.backends) elements, copy
\* fills it from bl.backends, and the new slice is returned
SliceGetAll(t) ==
  /\ brk < MaxAddr
  /\ brk' = brk + 1
  /\ heap' = [heap EXCEPT ![brk'] =
                Copy([i \in 1..Len(Content(blref)) |-> ZeroBackend], Content(blref))]
  /\ snap' = [snap EXCEPT ![t] = brk']
  /\ wrote' = wrote \ {t}
  /\ UNCHANGED <<blref, everythingElse, service, loaders, transport, counter>>

\* reconcile and Replace: append builds the new slice in a backing array of its
\* own, bl.backends = backends stores that slice
SliceReplace(e) ==
  /\ brk < MaxAddr
  /\ brk' = brk + 1
  /\ heap' = [heap EXCEPT ![brk'] = AppendSubsets(<<>>, e.Subsets)]
  /\ blref' = IF AppendSubsets(<<>>, e.Subsets) = <<>> THEN NilSlice ELSE brk'
  /\ UNCHANGED <<snap, wrote, everythingElse, service, loaders, transport, counter>>

\* a caller of GetAll assigns to an element of the slice it was handed
SliceWrite(t, i, b) ==
  /\ snap[t] # NilSlice
  /\ i \in 1..Len(heap[snap[t]])
  /\ heap[snap[t]][i] # b
  /\ heap' = [heap EXCEPT ![snap[t]][i] = b]
  /\ wrote' = wrote \cup {t}
  /\ UNCHANGED <<brk, blref, snap, everythingElse, service, loaders, transport, counter>>

NextSlices ==
  \/ \E t \in Tasks : SliceGetAll(t)
  \/ \E e \in LiveEvents : SliceReplace(e)
  \/ \E t \in Tasks, i \in 1..MaxLen, b \in {BackendA, BackendB, BackendC} :
       SliceWrite(t, i, b)

SpecSlices == Init /\ [][NextSlices]_vars

\* ------------------------------------------------------ the backend responder
\* the patterns of ServiceHandler.Register
ServicePaths == {"/status", "/ping"}

\* a request arrives at the backend and its mux hands it to status or to ping
ServiceServe(t, p) ==
  /\ spc[t] = "idle"
  /\ p = "/ping" => pings < MaxPings
  /\ spc' = [spc EXCEPT ![t] = IF p = "/ping" THEN "ping" ELSE "status"]
  /\ UNCHANGED <<Count, count, reply, pings, nth, reported, slices, loaders, transport, counter, everythingElse>>

\* mutant: ping reports the value Count had before its add
ServicePingReportsOld(t) ==
  /\ spc[t] = "ping"
  /\ Count' = Count + 1
  /\ count' = [count EXCEPT ![t] = Count]
  /\ pings' = pings + 1
  /\ nth' = [nth EXCEPT ![t] = pings']
  /\ spc' = [spc EXCEPT ![t] = "writeJSON"]
  /\ UNCHANGED <<reply, reported, slices, loaders, transport, counter, everythingElse>>

\* mutant: s.Count++ in place of the atomic add: the load of Count and the
\* store of the loaded value plus one are two steps
ServicePingLoadsThenStores(t) ==
  /\ spc[t] = "ping"
  /\ IF nth[t] = 0
     THEN /\ count' = [count EXCEPT ![t] = Count + 1]
          /\ nth' = [nth EXCEPT ![t] = -1]
          /\ UNCHANGED <<Count, pings, spc>>
     ELSE /\ Count' = count[t]
          /\ pings' = pings + 1
          /\ nth' = [nth EXCEPT ![t] = pings']
          /\ spc' = [spc EXCEPT ![t] = "writeJSON"]
          /\ UNCHANGED count
  /\ UNCHANGED <<reply, reported, slices, loaders, transport, counter, everythingElse>>

\* ping, count := atomic.AddInt64(&s.Count, 1): the add and the read of the new
\* value are one atomic step
ServicePing(t) ==
  /\ spc[t] = "ping"
  /\ Count' = Count + 1
  /\ count' = [count EXCEPT ![t] = Count']
  /\ pings' = pings + 1
  /\ nth' = [nth EXCEPT ![t] = pings']
  /\ spc' = [spc EXCEPT ![t] = "writeJSON"]
  /\ UNCHANGED <<reply, reported, slices, loaders, transport, counter, everythingElse>>

\* ping, PingResponse{Count: count} and writeJSON(w, http.StatusOK, response)
ServicePingWrite(t) ==
  /\ spc[t] = "writeJSON"
  /\ reply' = [reply EXCEPT ![t] = [ServiceName |-> ServiceName, Count |-> count[t]]]
  /\ reported' = Append(reported, count[t])
  /\ spc' = [spc EXCEPT ![t] = "done"]
  /\ UNCHANGED <<Count, count, pings, nth, slices, loaders, transport, counter, everythingElse>>

\* status: StatusResponse and writeJSON(w, http.StatusOK, response)
ServiceStatus(t) ==
  /\ spc[t] = "status"
  /\ reply' = [reply EXCEPT ![t] = [ServiceName |-> ServiceName]]
  /\ spc' = [spc EXCEPT ![t] = "done"]
  /\ UNCHANGED <<Count, count, pings, nth, reported, slices, loaders, transport, counter, everythingElse>>

\* the handler goroutine is done with the request and takes the next one
ServiceFinish(t) ==
  /\ spc[t] = "done"
  /\ spc' = [spc EXCEPT ![t] = "idle"]
  /\ count' = [count EXCEPT ![t] = 0]
  /\ reply' = [reply EXCEPT ![t] = Nil]
  /\ nth' = [nth EXCEPT ![t] = 0]
  /\ UNCHANGED <<Count, pings, reported, slices, loaders, transport, counter, everythingElse>>

NextService ==
  \/ \E t \in Tasks, p \in ServicePaths : ServiceServe(t, p)
  \/ \E t \in Tasks : ServicePing(t)
  \/ \E t \in Tasks : ServicePingWrite(t)
  \/ \E t \in Tasks : ServiceStatus(t)
  \/ \E t \in Tasks : ServiceFinish(t)

SpecService == Init /\ [][NextService]_vars

\* ------------------------------------------------ the round trip, step by step
\* createProxy sets no Transport and Rewrite leaves the outbound request's
\* context alone: ReverseProxy hands http.DefaultTransport an outbound request
\* with the inbound request's context. RoundTrip(t, ok) above is the round trip
\* of a request nobody cancels; here it is taken apart into the transport's
\* steps, and the caller may go away at any moment.

\* the caller goes away: net/http cancels the inbound request's context
Cancel(t) ==
  /\ ~crashed /\ route[t] = "Proxy" /\ pc[t] \notin {"idle", "done"}
  /\ ~ctxDone[t]
  /\ ctxDone' = [ctxDone EXCEPT ![t] = TRUE]
  /\ UNCHANGED <<conn, slices, service, loaders, counter, everythingElse>>

\* Transport.RoundTrip dials the backend of the outbound URL and sends the request
TransportDial(t) ==
  /\ ~crashed /\ pc[t] = "forward" /\ conn[t] = "none" /\ ~ctxDone[t]
  /\ conn' = [conn EXCEPT ![t] = "open"]
  /\ UNCHANGED <<ctxDone, slices, service, loaders, counter, everythingElse>>

\* Transport.RoundTrip with a context that is already cancelled returns the
\* context's error without a connection; ReverseProxy calls ErrorHandler
TransportRefuse(t) ==
  /\ ~crashed /\ pc[t] = "forward" /\ conn[t] = "none" /\ ctxDone[t]
  /\ attempts' = [attempts EXCEPT ![t] = Append(@, url[t])]
  /\ pc' = [pc EXCEPT ![t] = "ErrorHandler"]
  /\ UNCHANGED <<transport, slices, service, loaders, counter, rotation, feed, replicas, shutdown, startup, urlPath, registry, Requests, bhmu,
                 route, requests, result, target, outcome, url, body, informer, history>>

\* the backend answers, or the connection fails, and the round trip ends
TransportRespond(t, ok) ==
  /\ ~crashed /\ pc[t] = "forward" /\ conn[t] = "open"
  /\ attempts' = [attempts EXCEPT ![t] = Append(@, url[t])]
  /\ conn' = [conn EXCEPT ![t] = IF ok THEN "completed" ELSE "closed"]
  /\ IF ok
     THEN /\ outcome' = [outcome EXCEPT ![t] = "forwarded"]
          /\ pc' = [pc EXCEPT ![t] = "done"]
     ELSE /\ pc' = [pc EXCEPT ![t] = "ErrorHandler"]
          /\ UNCHANGED outcome
  /\ UNCHANGED <<ctxDone, slices, service, loaders, counter, rotation, feed, replicas, shutdown, startup, urlPath, registry, Requests, bhmu,
                 route, requests, result, target, url, body, informer, history>>

\* mutant: the outbound request has a context of its own and the transport
\* goes on waiting for the backend
TransportKeepsWaiting(t) ==
  /\ ~crashed /\ pc[t] = "forward" /\ conn[t] = "open" /\ ctxDone[t]
  /\ UNCHANGED vars

\* the transport sees the cancelled context while the request is in flight:
\* it closes the connection and the round trip fails with the context's error
TransportAbort(t) ==
  /\ ~crashed /\ pc[t] = "forward" /\ conn[t] = "open" /\ ctxDone[t]
  /\ attempts' = [attempts EXCEPT ![t] = Append(@, url[t])]
  /\ conn' = [conn EXCEPT ![t] = "closed"]
  /\ pc' = [pc EXCEPT ![t] = "ErrorHandler"]
  /\ UNCHANGED <<ctxDone, slices, service, loaders, counter, rotation, feed, replicas, shutdown, startup, urlPath, registry, Requests, bhmu,
                 route, requests, result, target, outcome, url, body, informer, history>>

\* the server is done with the request: its context and its connection record
\* are gone, and the next request of the goroutine has its own
Release(t) ==
  /\ pc[t] = "idle" /\ (ctxDone[t] \/ conn[t] # "none")
  /\ ctxDone' = [ctxDone EXCEPT ![t] = FALSE]
  /\ conn' = [conn EXCEPT ![t] = "none"]
  /\ UNCHANGED <<slices, service, loaders, counter, everythingElse>>

\* the request the goroutine takes is a new one
Fresh(t) == ~ctxDone[t] /\ conn[t] = "none"

\* the load under which cancellation is checked
CancelLoad ==
  /\ delivered <= MaxCancelEvents /\ dispatched <= MaxCancelRequests
  /\ \A i \in 1..Len(log) : log[i] \in LiveEvents

NextCancel ==
  \/ \E obj \in Events : AddFunc(obj) /\ CancelLoad'
  \/ \E obj \in Events : UpdateFunc(obj) /\ CancelLoad'
  \/ \E obj \in Events : DeleteFunc(obj) /\ CancelLoad'
  \/ ReplaceLock
  \/ ReplaceAssign
  \/ \E t \in Tasks : Serve(t, "/") /\ Fresh(t) /\ CancelLoad'
  \/ \E t \in Tasks : RewriteLock(t)
  \/ \E t \in Tasks : RewriteInc(t)
  \/ \E t \in Tasks : GetAllRLock(t)
  \/ \E t \in Tasks : GetAllCopy(t)
  \/ \E t \in Tasks : RewriteSelect(t)
  \/ \E t \in Tasks : RewriteSetURL(t)
  \/ \E t \in Tasks : Cancel(t)
  \/ \E t \in Tasks : TransportDial(t)
  \/ \E t \in Tasks : TransportRefuse(t)
  \/ \E t \in Tasks, ok \in BOOLEAN : TransportRespond(t, ok)
  \/ \E t \in Tasks : TransportAbort(t)
  \/ \E t \in Tasks : ErrorHandler(t)
  \/ \E t \in Tasks : Finish(t)
  \/ \E t \in Tasks : Release(t)

\* the transport's goroutines are scheduled like every other: one that can
\* close the connection of a cancelled request does. Nothing obliges the
\* backend to answer: TransportRespond carries no fairness.
SpecCancel ==
  Init /\ [][NextCancel]_vars /\ Fairness /\ \A t \in Tasks : WF_vars(TransportAbort(t))

\* ----------------------------------------------- the increment, step by step
\* bh.Requests++ is a load, an add and a store, and `requests := bh.Requests`
\* is another load: RewriteInc above is what they amount to when the lock keeps
\* every other goroutine out. Here they are taken apart, with the lock as the
\* only thing between the goroutines.

\* bh.Requests++, the load
CounterLoad(t) ==
  /\ ~crashed /\ pc[t] = "RewriteInc"
  /\ reg' = [reg EXCEPT ![t] = Requests]
  /\ pc' = [pc EXCEPT ![t] = "store"]
  /\ UNCHANGED <<obtained, slices, service, loaders, transport, rotation, feed, replicas, shutdown, startup, urlPath, registry,
                 Requests, bhmu, route, locals, informer, history>>

\* bh.Requests++, the store of the loaded value plus one
CounterStore(t) ==
  /\ ~crashed /\ pc[t] = "store"
  /\ Requests' = Increment(reg[t])
  /\ pc' = [pc EXCEPT ![t] = "readBack"]
  /\ UNCHANGED <<counter, slices, service, loaders, transport, rotation, feed, replicas, shutdown, startup, urlPath, registry,
                 bhmu, route, locals, informer, history>>

\* requests := bh.Requests
CounterReadBack(t) ==
  /\ ~crashed /\ pc[t] = "readBack"
  /\ requests' = [requests EXCEPT ![t] = Requests]
  /\ obtained' = Append(obtained, Requests)
  /\ pc' = [pc EXCEPT ![t] = "Unlock"]
  /\ UNCHANGED <<reg, slices, service, loaders, transport, rotation, feed, replicas, shutdown, startup, urlPath, registry, Requests,
                 bhmu, route, result, target, attempts, outcome, url, body, informer, history>>

\* bh.mu.Unlock(); then the call of selectBackend enters GetAll
CounterUnlock(t) ==
  /\ ~crashed /\ pc[t] = "Unlock"
  /\ bhmu' = Unlock(bhmu, t)
  /\ reg' = [reg EXCEPT ![t] = 0]
  /\ pc' = [pc EXCEPT ![t] = "GetAll"]
  /\ lastNext' = Nil
  /\ expect' = [u \in Tasks |-> IF u = t THEN lastNext ELSE Disturb(u)]
  /\ UNCHANGED <<obtained, slices, service, loaders, transport, rotation, feed, replicas, shutdown, startup, urlPath, registry,
                 Requests, route, locals, informer, dispatched, seen>>

NextCounter ==
  \/ \E t \in Tasks, p \in Paths \ Diagnostic : Serve(t, p)
  \/ \E t \in Tasks : RewriteLock(t)
  \/ \E t \in Tasks : CounterLoad(t)
  \/ \E t \in Tasks : CounterStore(t)
  \/ \E t \in Tasks : CounterReadBack(t)
  \/ \E t \in Tasks : CounterUnlock(t)
  \/ \E t \in Tasks : GetAllRLock(t)
  \/ \E t \in Tasks : GetAllCopy(t)
  \/ \E t \in Tasks : RewriteSelect(t)
  \/ \E t \in Tasks : Finish(t)

SpecCounter == Init /\ [][NextCounter]_vars

\* ------------------------------------------------------ the rotation, recorded
\* Rewrite's call of selectBackend, with the selection written down under the
\* counter value it was made with
SelectRecorded(t) ==
  /\ RewriteSelectStep(t)
  /\ picked' = IF pc'[t] = "SetURL"
               THEN [picked EXCEPT ![requests[t]] = [b |-> target'[t], of |-> result[t]]]
               ELSE picked

\* the load under which the rotation is checked: the set is installed once
RotationLoad ==
  /\ delivered <= MaxRotationEvents
  /\ \A i \in 1..Len(log) : log[i] \in LiveEvents

NextRotation ==
  \/ \E obj \in Events : AddFunc(obj) /\ RotationLoad'
  \/ \E obj \in Events : UpdateFunc(obj) /\ RotationLoad'
  \/ \E obj \in Events : DeleteFunc(obj) /\ RotationLoad'
  \/ ReplaceLock
  \/ ReplaceAssign
  \/ \E t \in Tasks, p \in Paths \ Diagnostic : Serve(t, p)
  \/ \E t \in Tasks : RewriteLock(t)
  \/ \E t \in Tasks : RewriteInc(t)
  \/ \E t \in Tasks : GetAllRLock(t)
  \/ \E t \in Tasks : GetAllCopy(t)
  \/ \E t \in Tasks : SelectRecorded(t)
  \/ \E t \in Tasks : RewriteSetURL(t)
  \/ \E t \in Tasks, ok \in BOOLEAN : RoundTrip(t, ok)
  \/ \E t \in Tasks : ErrorHandler(t)
  \/ \E t \in Tasks : Finish(t)

SpecRotation == Init /\ [][NextRotation]_vars

\* ------------------------------------------- the counter over its whole range
\* the sets the counter is checked against: one of each length
WrapSets ==
  {[i \in 1..n |-> <<BackendA, BackendB, BackendC>>[((i - 1) % 3) + 1]] : n \in 1..MaxLen}

\* the process has served any number of requests: bh.Requests holds any value
\* of int, the Backend Set is not empty, every handler goroutine is idle
InitWrap ==
  \E bs \in WrapSets, c \in MinInt..MaxInt :
    /\ backends = bs
    /\ blmu = [w |-> {}, r |-> {}, p |-> {}]
    /\ Requests = c
    /\ bhmu = [w |-> {}, r |-> {}, p |-> {}]
    /\ pc = [t \in Tasks |-> "idle"]
    /\ route = [t \in Tasks |-> None]
    /\ urlPath = [t \in Tasks |-> None]
    /\ requests = [t \in Tasks |-> 0]
    /\ result = [t \in Tasks |-> <<>>]
    /\ target = [t \in Tasks |-> Nil]
    /\ attempts = [t \in Tasks |-> <<>>]
    /\ outcome = [t \in Tasks |-> None]
    /\ url = [t \in Tasks |-> Nil]
    /\ body = [t \in Tasks |-> Nil]
    /\ rpc = "idle"
    /\ endpoints = Nil
    /\ rbackends = <<>>
    /\ delivered = 0
    /\ crashed = FALSE
    /\ log = <<>>
    /\ dispatched = 0
    /\ seen = [t \in Tasks |-> {}]
    /\ lastNext = Nil
    /\ expect = [t \in Tasks |-> Nil]
    /\ mainpc = "serving"
    /\ pathIdx = Len(ConfigPaths)
    /\ cfg = Config(StrategyRoundRobin)
    /\ err = None
    /\ Strategy = NewStrategy(StrategyRoundRobin)
    /\ offered = <<StrategyRoundRobin>>
    /\ InitBeside

NextWrap ==
  \/ \E t \in Tasks, p \in Paths \ {"/status"} : Serve(t, p)
  \/ \E t \in Tasks : RewriteLock(t)
  \/ \E t \in Tasks : RewriteInc(t)
  \/ \E t \in Tasks : NextBackendRLock(t)
  \/ \E t \in Tasks : NextBackendRead(t)
  \/ \E t \in Tasks : GetAllRLock(t)
  \/ \E t \in Tasks : GetAllCopy(t)
  \/ \E t \in Tasks : RewriteSelect(t)
  \/ \E t \in Tasks : RewriteSetURL(t)
  \/ \E t \in Tasks : NextBackendSelect(t)
  \/ \E t \in Tasks : NextBackendWrite(t)
  \/ \E t \in Tasks, ok \in BOOLEAN : RoundTrip(t, ok)
  \/ \E t \in Tasks : ErrorHandler(t)
  \/ \E t \in Tasks : Finish(t)

SpecWrap == InitWrap /\ [][NextWrap]_vars

\* ------------------------------------------ the notifications, by their kind
\* GetBackends registers three callbacks with the informer; here each
\* notification is written down with the callback it was delivered to

\* AddFunc: the resource has appeared
AddNotified(obj) == EventHandlerStep(obj) /\ verb' = "AddFunc"

\* UpdateFunc: the resource has changed, or the informer resyncs
UpdateNotified(obj) == EventHandlerStep(obj) /\ verb' = "UpdateFunc"

\* mutant: a delete clears the set, whatever the deleted object carries
DeleteNotifiedClears(obj) ==
  /\ ~crashed /\ rpc = "idle"
  /\ delivered < MaxEvents
  /\ delivered' = delivered + 1
  /\ log' = Append(log, obj)
  /\ IF ~obj.IsEndpoints
     THEN UNCHANGED <<rpc, endpoints, rbackends, crashed, blmu>>
     ELSE reconcile([obj EXCEPT !.Subsets = <<>>])
  /\ verb' = "DeleteFunc"
  /\ UNCHANGED <<startup, apart, replicas, shutdown, rotation, urlPath, backends, Requests, bhmu, pc, route, requests, result, target,
                 attempts, outcome, url, body, history>>

\* DeleteFunc: the resource is gone; obj is its last known state
DeleteNotified(obj) == EventHandlerStep(obj) /\ verb' = "DeleteFunc"

NextFeed ==
  \/ \E obj \in Events : AddNotified(obj)
  \/ \E obj \in Events : UpdateNotified(obj)
  \/ \E obj \in Events : DeleteNotified(obj)
  \/ ReplaceLock
  \/ ReplaceAssign
  \/ \E t \in Tasks : Serve(t, "/status")
  \/ \E t \in Tasks : GetAllRLock(t)
  \/ \E t \in Tasks : GetAllCopy(t)
  \/ \E t \in Tasks : Status(t)
  \/ \E t \in Tasks : Finish(t)

SpecFeed == Init /\ [][NextFeed]_vars

\* ------------------------------------------- instances behind the same feed
\* Several balancer processes run the same program; each has its own
\* BackendList and BalanceHandler and its own informer, and every informer is
\* delivered the notifications the control plane publishes, in their order.
\* An instance's handler is taken in two steps (the increment under the lock,
\* then the selection from the snapshot) and its Replace in one.
aside == <<apart, feed, shutdown, rotation, urlPath, registry, Requests, bhmu, pc, route, locals, informer,
           history, startup>>

\* the control plane publishes a notification
Publish(obj) ==
  /\ Len(stream) < MaxFeed
  /\ stream' = Append(stream, obj)
  /\ UNCHANGED <<replica, aside>>

\* the instance's informer delivers the next notification to its callback: the
\* type assertion, then reconcile up to the call of Replace
ReplicaDeliver(i) ==
  /\ ~replica[i].crashed /\ replica[i].rpc = "idle"
  /\ replica[i].consumed < Len(stream)
  /\ LET obj == stream[replica[i].consumed + 1]
         r == [replica[i] EXCEPT !.consumed = @ + 1]
     IN replica' = [replica EXCEPT ![i] =
          IF ~obj.IsEndpoints \/ obj.Name # ServiceName THEN r
          ELSE IF ReconcilePanics(obj) THEN [r EXCEPT !.crashed = TRUE]
          ELSE [r EXCEPT !.rbackends = AppendSubsets(<<>>, obj.Subsets), !.rpc = "Replace"]]
  /\ UNCHANGED <<stream, aside>>

\* mutant: a replacement that finds a request in flight is given up
ReplicaReplaceUnlessServing(i) ==
  /\ ~replica[i].crashed /\ replica[i].rpc = "Replace"
  /\ replica' = [replica EXCEPT ![i] =
       [@ EXCEPT !.backends = IF replica[i].pc = "idle"
                              THEN Replaced(@, replica[i].rbackends) ELSE @,
                 !.rbackends = <<>>, !.rpc = "idle"]]
  /\ UNCHANGED <<stream, aside>>

\* the instance's BackendList.Replace
ReplicaReplace(i) ==
  /\ ~replica[i].crashed /\ replica[i].rpc = "Replace"
  /\ replica' = [replica EXCEPT ![i] =
       [@ EXCEPT !.backends = Replaced(@, replica[i].rbackends),
                 !.rbackends = <<>>, !.rpc = "idle"]]
  /\ UNCHANGED <<stream, aside>>

\* a request reaches the instance's proxy: Rewrite's increment under the lock
ReplicaRewrite(i) ==
  /\ ~replica[i].crashed /\ replica[i].pc = "idle"
  /\ replica[i].received < MaxReplicaRequests
  /\ replica' = [replica EXCEPT ![i] =
       [@ EXCEPT !.Requests = Increment(@), !.requests = Increment(replica[i].Requests),
                 !.received = @ + 1, !.pc = "selectBackend",
                 !.target = Nil, !.outcome = None]]
  /\ UNCHANGED <<stream, aside>>

\* selectBackend: Strategy.Next on the snapshot GetAll returns
ReplicaSelect(i) ==
  /\ ~replica[i].crashed /\ replica[i].pc = "selectBackend"
  /\ replica' = [replica EXCEPT ![i] =
       IF RoundRobinNextPanics(replica[i].backends, replica[i].requests)
       THEN [@ EXCEPT !.outcome = "panic", !.requests = 0, !.pc = "idle"]
       ELSE [@ EXCEPT !.target = RoundRobinNext(replica[i].backends, replica[i].requests),
                      !.requests = 0, !.pc = "idle"]]
  /\ UNCHANGED <<stream, aside>>

NextReplicas ==
  \/ \E obj \in Events : Publish(obj)
  \/ \E i \in Instances : ReplicaDeliver(i)
  \/ \E i \in Instances : ReplicaReplace(i)
  \/ \E i \in Instances : ReplicaRewrite(i)
  \/ \E i \in Instances : ReplicaSelect(i)

SpecReplicas == Init /\ [][NextReplicas]_vars

\* ------------------------------------------------------ the end of the process
\* main from `<-quit` on, the goroutine main starts for the shutdown, and the
\* server's requests. mainpc "serving" is main waiting in <-quit. A Go program
\* ends when main returns, whatever its other goroutines are doing.
ashore ==
  <<apart, feed, replicas, rotation, urlPath, registry, Requests, bhmu, pc, route, locals,
    informer, history, pathIdx, cfg, err, Strategy, offered>>

\* the process is running
Running == mainpc # "exited"

\* SIGINT or SIGTERM arrives: signal.Notify's channel has room for one signal
Signal ==
  /\ Running /\ ~quit
  /\ quit' = TRUE
  /\ UNCHANGED <<stopCh, shutter, listener, informing, active, killed, mainpc, ashore>>

\* main, <-quit
MainQuit ==
  /\ mainpc = "serving" /\ quit
  /\ quit' = FALSE
  /\ mainpc' = "close"
  /\ UNCHANGED <<stopCh, shutter, listener, informing, active, killed, ashore>>

\* main, close(stopCh)
MainClose ==
  /\ mainpc = "close"
  /\ stopCh' = "closed"
  /\ mainpc' = "return"
  /\ UNCHANGED <<quit, shutter, listener, informing, active, killed, ashore>>

\* main returns and the process ends, with every goroutine where it is
MainReturn ==
  /\ mainpc = "return"
  /\ mainpc' = "exited"
  /\ killed' = active
  /\ UNCHANGED <<quit, stopCh, shutter, listener, informing, active, ashore>>

\* the shutdown goroutine, <-stopCh and the call of server.Shutdown(ctx) with
\* its 10 seconds: the listener is closed
ShutdownStart ==
  /\ Running /\ shutter = "waitStop" /\ stopCh = "closed"
  /\ shutter' = "Shutdown"
  /\ listener' = IF listener = "listening" THEN "closed" ELSE listener
  /\ UNCHANGED <<quit, stopCh, informing, active, killed, mainpc, ashore>>

\* ListenAndServe returns ErrServerClosed once Shutdown has closed the
\* listener, and its goroutine ends
ListenAndServeReturns ==
  /\ Running /\ listener = "closed"
  /\ listener' = "returned"
  /\ UNCHANGED <<quit, stopCh, shutter, informing, active, killed, mainpc, ashore>>

\* the informers see stopCh closed and stop
InformersStop ==
  /\ Running /\ informing /\ stopCh = "closed"
  /\ informing' = FALSE
  /\ UNCHANGED <<quit, stopCh, shutter, listener, active, killed, mainpc, ashore>>

\* server.Shutdown returns nil: no request is in flight any more
ShutdownReturn ==
  /\ Running /\ shutter = "Shutdown" /\ active = {}
  /\ shutter' = "returned"
  /\ UNCHANGED <<quit, stopCh, listener, informing, active, killed, mainpc, ashore>>

\* server.Shutdown returns the context's error: the 10 seconds are over and
\* requests are still in flight
ShutdownDeadline ==
  /\ Running /\ shutter = "Shutdown" /\ active # {}
  /\ shutter' = "returned"
  /\ UNCHANGED <<quit, stopCh, listener, informing, active, killed, mainpc, ashore>>

\* the server accepts a request and a handler goroutine serves it
Accept(t) ==
  /\ Running /\ listener = "listening" /\ t \notin active
  /\ active' = active \cup {t}
  /\ UNCHANGED <<quit, stopCh, shutter, listener, informing, killed, mainpc, ashore>>

\* the handler goroutine has written its response
Complete(t) ==
  /\ Running /\ t \in active
  /\ active' = active \ {t}
  /\ UNCHANGED <<quit, stopCh, shutter, listener, informing, killed, mainpc, ashore>>

NextShutdown ==
  \/ Signal
  \/ MainQuit
  \/ MainClose
  \/ MainReturn
  \/ ShutdownStart
  \/ ShutdownReturn
  \/ ShutdownDeadline
  \/ ListenAndServeReturns
  \/ InformersStop
  \/ \E t \in Tasks : Accept(t)
  \/ \E t \in Tasks : Complete(t)

SpecShutdown == Init /\ [][NextShutdown]_vars

\* ---------------------------------------------------------------- the loaders
\* a process starts with a file at its path, or with an environment, and is
\* about to call the loader
Arrange(loader, input) ==
  /\ called = Nil
  /\ called' = [loader |-> loader, input |-> input]
  /\ UNCHANGED <<loaded, slices, service, transport, counter, everythingElse>>

BackendLoadsFile ==
  /\ called # Nil /\ loaded = Nil /\ called.loader = "backend.LoadFromFile"
  /\ loaded' = BackendLoadFromFile(called.input)
  /\ UNCHANGED <<called, slices, service, transport, counter, everythingElse>>

BackendLoadsEnv ==
  /\ called # Nil /\ loaded = Nil /\ called.loader = "backend.LoadFromEnv"
  /\ loaded' = BackendLoadFromEnv(called.input)
  /\ UNCHANGED <<called, slices, service, transport, counter, everythingElse>>

BalancerLoadsFile ==
  /\ called # Nil /\ loaded = Nil /\ called.loader = "balancer.LoadFromFile"
  /\ loaded' = BalancerLoadFromFile(called.input)
  /\ UNCHANGED <<called, slices, service, transport, counter, everythingElse>>

BalancerLoadsEnv ==
  /\ called # Nil /\ loaded = Nil /\ called.loader = "balancer.LoadFromEnv"
  /\ loaded' = BalancerLoadFromEnv(called.input)
  /\ UNCHANGED <<called, slices, service, transport, counter, everythingElse>>

NextLoaders ==
  \/ \E doc \in BackendFiles : Arrange("backend.LoadFromFile", doc)
  \/ \E e \in BackendEnvs : Arrange("backend.LoadFromEnv", e)
  \/ \E doc \in BalancerFiles : Arrange("balancer.LoadFromFile", doc)
  \/ \E e \in BalancerEnvs : Arrange("balancer.LoadFromEnv", e)
  \/ BackendLoadsFile
  \/ BackendLoadsEnv
  \/ BalancerLoadsFile
  \/ BalancerLoadsEnv

SpecLoaders == Init /\ [][NextLoaders]_vars

\* --------------------------------------------------- the strategy on its own
\* every sequence of at most n backends
RECURSIVE BackendSeqs(_)
BackendSeqs(n) ==
  IF n = 0 THEN {<<>>}
  ELSE LET shorter == BackendSeqs(n - 1)
       IN  shorter \cup {Append(q, b) : q \in {x \in shorter : Len(x) = n - 1},
                                       b \in {BackendA, BackendB, BackendC}}

\* a handler that holds a non-empty snapshot and a counter value and is about
\* to call Strategy.Next
InitStrategy ==
  \E bs \in BackendSeqs(MaxLen) \ {<<>>}, c \in 0..MaxCounter,
     r \in {"Proxy", "nextBackend"} :
    /\ r = "Proxy" => c > 0
    /\ backends = bs
    /\ blmu = [w |-> {}, r |-> {}, p |-> {}]
    /\ Requests = c
    /\ bhmu = [w |-> {}, r |-> {}, p |-> {}]
    /\ pc = [t \in Tasks |-> IF t = 1 THEN "selectBackend" ELSE "idle"]
    /\ route = [t \in Tasks |-> IF t = 1 THEN r ELSE None]
    /\ urlPath = [t \in Tasks |-> None]
    /\ requests = [t \in Tasks |-> IF t = 1 THEN c ELSE 0]
    /\ result = [t \in Tasks |-> IF t = 1 THEN bs ELSE <<>>]
    /\ target = [t \in Tasks |-> Nil]
    /\ attempts = [t \in Tasks |-> <<>>]
    /\ outcome = [t \in Tasks |-> None]
    /\ url = [t \in Tasks |-> Nil]
    /\ body = [t \in Tasks |-> Nil]
    /\ rpc = "idle"
    /\ endpoints = Nil
    /\ rbackends = <<>>
    /\ delivered = 0
    /\ crashed = FALSE
    /\ log = <<>>
    /\ dispatched = c
    /\ seen = [t \in Tasks |-> IF t = 1 THEN {bs} ELSE {}]
    /\ lastNext = Nil
    /\ expect = [t \in Tasks |-> Nil]
    /\ mainpc = "serving"
    /\ pathIdx = Len(ConfigPaths)
    /\ cfg = Config(StrategyRoundRobin)
    /\ err = None
    /\ Strategy = NewStrategy(StrategyRoundRobin)
    /\ offered = <<StrategyRoundRobin>>
    /\ InitBeside

NextStrategy ==
  \/ \E t \in Tasks : RewriteSelect(t)
  \/ \E t \in Tasks : NextBackendSelect(t)

SpecStrategy == InitStrategy /\ [][NextStrategy]_vars

\* ---------------------------------------------------------------- properties
\* handlers holding the snapshot GetAll returned to them
HoldsSnapshot(t) == pc[t] \in {"selectBackend", "status"}

\* handlers holding the backend Strategy.Next returned to them
HoldsSelection(t) == pc[t] \in {"SetURL", "writeJSON"}

\* position c mod N of a sequence whose positions Go counts from 0
AtIndex(bs, c) == bs[(c % Len(bs)) + 1]

\* C1: every snapshot GetAll returns is one of the complete values the Backend
\* Set had while GetAll read it (the set before a concurrent Replace or the set
\* after it), never a mix of two of them.
C1_SnapshotIsPreOrPost ==
  \A t \in Tasks : HoldsSnapshot(t) => result[t] \in seen[t]

\* C1 witness: a complete non-empty snapshot was returned while a reconciliation
\* carrying a different set was pending.
C1_Witness ==
  \E t \in Tasks :
    /\ HoldsSnapshot(t) /\ result[t] # <<>> /\ result[t] \in seen[t]
    /\ rpc = "Replace" /\ rbackends # result[t]

\* C2 (as claimed): a proxied request whose snapshot is empty ends with a 503
\* and nothing else happens to it.
C2_EmptySnapshotGets503 ==
  [][\A t \in Tasks :
       (pc[t] = "selectBackend" /\ route[t] = "Proxy" /\ result[t] = <<>>
        /\ pc'[t] # pc[t])
       => (pc'[t] = "done" /\ outcome'[t] = "503" /\ attempts'[t] = <<>>)]_vars

\* C3: for a non-empty sequence of length N and a counter value c, round-robin
\* returns the element at index c mod N without failing, and returns the same
\* element for c + N.
C3_RoundRobinIndexAndPeriod ==
  \A t \in Tasks :
    /\ outcome[t] # "panic"
    /\ HoldsSelection(t) =>
         /\ result[t] # <<>>
         /\ target[t] = AtIndex(result[t], requests[t])
         /\ RoundRobinNext(result[t], requests[t] + Len(result[t])) = target[t]

\* C3 witness: the counter is past the end of a three-element sequence and the
\* selection wrapped around.
C3_Witness ==
  \E t \in Tasks :
    /\ HoldsSelection(t) /\ Len(result[t]) = 3 /\ requests[t] = 5
    /\ target[t] = result[t][3]

\* requests that entered Rewrite and have not incremented the counter yet
BeforeIncrement == {t \in Tasks : pc[t] \in {"Rewrite", "RewriteInc"}}

\* C4: the Request Counter equals the number of requests that reached the
\* dispatch path and got to the increment, whatever became of them; it never
\* decreases and nothing else moves it.
C4_CounterCountsRequests ==
  /\ Requests = dispatched - Cardinality(BeforeIncrement)
  /\ \A t \in Tasks : requests[t] <= Requests

\* C4 witness: three requests were dispatched, one of them failed with 502
\* and one of them panicked, and the counter is 3.
C4_Witness ==
  /\ dispatched = 3 /\ Requests = 3 /\ BeforeIncrement = {}
  /\ \E t, u \in Tasks :
       /\ pc[t] = "done" /\ outcome[t] = "502"
       /\ pc[u] = "done" /\ outcome[u] = "panic" /\ route[u] = "Proxy"

SetABC == <<BackendA, BackendB, BackendC>>

C6_ResizeKeepsCounter ==
  [][/\ (rpc = "ReplaceAssign" /\ rpc' # rpc) => Requests' = Requests
     /\ \A t \in Tasks :
          (pc[t] = "selectBackend" /\ route[t] = "Proxy" /\ result[t] # <<>>
           /\ pc'[t] # pc[t])
          => (pc'[t] = "SetURL" /\ target'[t] = AtIndex(result[t], requests[t]))]_vars

\* C6 witness: one request selected B (so from [A, B, C], counter value 1), the
\* set shrank to [A, C], and the request with counter value 2 selected A.
C6_Witness ==
  \E t, u \in Tasks :
    /\ pc[t] = "SetURL" /\ result[t] = <<BackendA, BackendC>> /\ backends = result[t]
    /\ requests[t] = 2 /\ target[t] = BackendA
    /\ url[u] = Host(BackendB)

C9_NextBackendPredicts ==
  \A t \in Tasks :
    (pc[t] = "SetURL" /\ route[t] = "Proxy" /\ expect[t] # Nil)
    => target[t] = expect[t]

\* the running total of the subsets' Addresses before subset i
RECURSIVE Offset(_, _)
Offset(e, i) ==
  IF i <= 1 THEN 0 ELSE Offset(e, i - 1) + Len(e.Subsets[i - 1].Addresses)

\* bs is the membership e carries, in e's order
IsMembership(bs, e) ==
  /\ Len(bs) = Offset(e, Len(e.Subsets) + 1)
  /\ \A i \in 1..Len(e.Subsets) :
       \A j \in 1..Len(e.Subsets[i].Addresses) :
         /\ bs[Offset(e, i) + j].Address = e.Subsets[i].Addresses[j].IP
         /\ bs[Offset(e, i) + j].PodName = e.Subsets[i].Addresses[j].TargetRef.Name

\* C10: when reconcile has replaced the set for a tracked event, the Backend
\* Set is exactly the membership the event carries, in its order; a backend of
\* the previous set that the event does not carry is gone.
C10_ReplaceIsWholeSet ==
  [][(rpc = "ReplaceAssign" /\ rpc' # rpc)
     => /\ endpoints.Name = ServiceName
        /\ IsMembership(backends', endpoints)
        /\ \A k \in 1..Len(backends) :
             (\A i \in 1..Len(endpoints.Subsets) :
                \A j \in 1..Len(endpoints.Subsets[i].Addresses) :
                  endpoints.Subsets[i].Addresses[j].IP # backends[k].Address)
             => \A m \in 1..Len(backends') : backends'[m] # backends[k]]_vars

\* C10 witness: B was selected from the set, and a later tracked event without
\* B left the set [A, C].
C10_Witness ==
  /\ backends = <<BackendA, BackendC>> /\ rpc = "idle"
  /\ \E t \in Tasks : url[t] = Host(BackendB)

\* the notification delivered last
LastOf(q) == q[Len(q)]

\* a notification for the tracked resource
Tracked(o) == o.IsEndpoints /\ o.Name = ServiceName

\* the step is the completion of Replace
ReplaceDone == rpc = "ReplaceAssign" /\ rpc' # rpc

\* the step is the delivery of a notification
Delivery == Len(log') = Len(log) + 1

\* C11: reconciling the same membership event twice in a row leaves the Backend
\* Set, and so every snapshot taken of it, as it was after the first time.
C11_ReconcileIsIdempotent ==
  [][(ReplaceDone /\ Len(log) >= 2 /\ LastOf(log) = log[Len(log) - 1])
     => backends' = backends]_vars

\* C11 witness: the same non-empty membership was reconciled twice in a row.
C11_Witness ==
  /\ Len(log) = 2 /\ log[1] = log[2] /\ Tracked(log[2])
  /\ rpc = "idle" /\ ~crashed /\ backends = SetABC

\* C12: an event whose resource name is not the tracked name starts no
\* replacement and leaves the Backend Set unchanged; the set changes only
\* while an event of the tracked resource is handled.
C12_UnrelatedNameIsIgnored ==
  [][/\ (Delivery /\ LastOf(log').IsEndpoints /\ LastOf(log').Name # ServiceName)
        => (backends' = backends /\ rpc' = "idle" /\ ~crashed')
     /\ backends' # backends => Tracked(LastOf(log))]_vars

\* C12 witness: an event of another resource, carrying a member, was handled
\* while the set was [A, B, C], and the set is still [A, B, C].
C12_Witness ==
  /\ Len(log) = 2 /\ log[2].IsEndpoints /\ log[2].Name = OtherName
  /\ log[2].Subsets # <<>>
  /\ rpc = "idle" /\ backends = SetABC

\* a member address without a target reference
NoTargetRef(o) ==
  \E i \in 1..Len(o.Subsets) :
    \E j \in 1..Len(o.Subsets[i].Addresses) :
      o.Subsets[i].Addresses[j].TargetRef = Nil

\* a payload that is no endpoints object, or a tracked event with a member
\* address that has no target reference
Malformed(o) == ~o.IsEndpoints \/ (Tracked(o) /\ NoTargetRef(o))

\* C13 (as claimed): a malformed notification is dropped: handling it does not
\* fail, starts no replacement and leaves the Backend Set unchanged.
C13_MalformedIsDropped ==
  [][(Delivery /\ Malformed(LastOf(log')))
     => (~crashed' /\ rpc' = "idle" /\ backends' = backends)]_vars

\* indices of the tracked notifications delivered
TrackedIn(q) == {i \in 1..Len(q) : Tracked(q[i])}

\* largest element of a non-empty set of numbers
Max(S) == CHOOSE x \in S : \A y \in S : y <= x

\* C20: whenever the informer has finished handling the notifications
\* delivered so far, the Backend Set is the membership of the last of them
\* that was for the tracked resource, and is empty if there was none.
C20_LastTrackedEventWins ==
  (rpc = "idle" /\ ~crashed)
  => IF TrackedIn(log) = {} THEN backends = <<>>
     ELSE IsMembership(backends, log[Max(TrackedIn(log))])

\* C20 witness: [A, B, C] was delivered, then [A], [C] in two subsets, and the
\* set is [A, C].
C20_Witness ==
  /\ Len(log) = 2 /\ Tracked(log[1]) /\ Tracked(log[2])
  /\ Len(log[1].Subsets) = 1 /\ Len(log[2].Subsets) = 2
  /\ rpc = "idle" /\ ~crashed
  /\ backends = <<BackendA, BackendC>>

\* the handler holds BackendList.mu; handlers take it for reading only, the
\* write side belongs to the informer
HoldsRegistryLock(t) == t \in blmu.r

\* the task holds BalanceHandler.mu, for reading or for writing
HoldsCounterLock(t) == t \in bhmu.r \/ t \in bhmu.w

\* the request is in the transport's round trip or in what follows its failure
Forwarding(t) == pc[t] \in {"forward", "ErrorHandler"}

\* C16: no request that is forwarding holds the registry's lock, and the
\* registry's read lock is held only by handlers inside GetAll's copy.
C16_NoRegistryLockDuringIO ==
  /\ \A t \in Tasks : Forwarding(t) => ~HoldsRegistryLock(t)
  /\ \A t \in Tasks : t \in blmu.r => pc[t] \in InGetAll
  /\ blmu.w \subseteq {Informer}

\* C16 witness: one request is forwarding while another handler holds the
\* read lock inside GetAll.
C16_Witness ==
  \E t, u \in Tasks :
    /\ pc[t] = "forward" /\ ~HoldsRegistryLock(t)
    /\ pc[u] = "GetAllCopy" /\ u \in blmu.r

\* C17: no task holds the counter's lock and the Backend Set's lock together,
\* so the counter is never read or updated by a holder of the set's lock.
C17_LocksNeverNested ==
  /\ \A t \in Tasks : ~(HoldsCounterLock(t) /\ HoldsRegistryLock(t))
  /\ \A t \in Tasks : pc[t] \in {"RewriteInc", "nextBackendRead"}
                      => (HoldsCounterLock(t) /\ ~HoldsRegistryLock(t))
  /\ bhmu.r \cup bhmu.w \subseteq Tasks

\* C17 witness: both locks are held at once, by different tasks.
C17_Witness ==
  \E t, u \in Tasks :
    /\ t # u /\ pc[t] = "RewriteInc" /\ t \in bhmu.w
    /\ pc[u] = "GetAllCopy" /\ u \in blmu.r

\* C18 (as claimed): a proxied request that completes ended as a forwarded
\* response, a 503 or a 502, and nothing else.
C18_ThreeOutcomes ==
  \A t \in Tasks :
    (route[t] = "Proxy" /\ pc[t] = "done") => outcome[t] \in {"forwarded", "503", "502"}

\* the request has selected its backend
Selected(t) == pc[t] \in {"SetURL", "writeJSON", "forward", "ErrorHandler"}

\* C19: a step that changes the Backend Set changes no handler's snapshot, and
\* changes neither the target nor the outbound URL of a request that has
\* selected its backend.
C19_InFlightUnaffected ==
  [][backends' # backends
     => /\ result' = result
        /\ \A t \in Tasks :
             Selected(t) => (target'[t] = target[t] /\ url'[t] = url[t]
                             /\ attempts'[t] = attempts[t] /\ pc'[t] = pc[t])]_vars

\* C19 witness: a request selected B from [A, B, C], then the set was emptied,
\* and the request still holds its snapshot and its target.
C19_Witness ==
  \E t \in Tasks :
    /\ pc[t] = "SetURL" /\ result[t] = SetABC /\ target[t] = BackendB
    /\ backends = <<>> /\ rpc = "idle" /\ Len(log) = 2

\* the handler is between its call of selectBackend and the selection
Selecting(t) == pc[t] \in {"GetAll", "GetAllCopy", "selectBackend"}

\* C15: a pending replacement of the set completes, whatever the requests do
\* (some may stay in the forwarding step forever), and a handler's snapshot and
\* selection complete although no further notification is delivered.
C15_NeitherBlocksTheOther ==
  /\ (rpc \in {"Replace", "ReplaceAssign"}) ~> (rpc = "idle")
  /\ \A t \in Tasks : \A n \in 0..MaxEvents :
       (Selecting(t) /\ delivered = n /\ ~crashed)
         ~> (~Selecting(t) \/ delivered # n)

\* C15 witness: a replacement is pending while a request is in the forwarding
\* step, and a handler was in its selection when the last notification came.
C15_Witness ==
  /\ rpc = "Replace" /\ delivered = MaxLiveEvents
  /\ \E t, u \in Tasks : pc[t] = "forward" /\ Selecting(u)

\* C14 (as claimed): when the sources of the configuration name only unknown
\* strategies, startup does not fail, and the process serves with round robin.
C14_UnknownStrategyFallsBack ==
  (offered # <<>> /\ \A i \in 1..Len(offered) : offered[i] # StrategyRoundRobin)
  => /\ mainpc # "fatal"
     /\ mainpc = "serving" => Strategy = "RoundRobin"

\* the snapshot a caller holds
Snapshot(t) == Content(snap[t])

\* the step is an assignment to an element of a slice
ElementWritten == brk' = brk /\ heap' # heap

\* C21: a write to a returned snapshot changes that snapshot only, neither the
\* Backend Set nor another caller's snapshot; and replacing the Backend Set
\* changes no snapshot that was returned before.
C21_SnapshotIsACopy ==
  [][/\ ElementWritten
        => /\ Content(blref)' = Content(blref)
           /\ Cardinality({t \in Tasks : Snapshot(t)' # Snapshot(t)}) = 1
     /\ blref' # blref => \A t \in Tasks : Snapshot(t)' = Snapshot(t)]_vars

\* C21 witness: one caller overwrote an element of its snapshot, the Backend
\* Set and the other caller's snapshot are still [A, B, C].
C21_Witness ==
  \E t, u \in Tasks :
    /\ t \in wrote /\ u \notin wrote /\ snap[u] # NilSlice
    /\ Snapshot(t) # SetABC /\ Len(Snapshot(t)) = 3
    /\ Snapshot(u) = SetABC /\ Content(blref) = SetABC

\* the positions of the dispatch path: Rewrite, the round trip and ErrorHandler
DispatchPath == {"Rewrite", "RewriteInc", "SetURL", "forward", "ErrorHandler"}

StatusStep(t) == pc'[t] # pc[t] /\ (route[t] = "status" \/ route'[t] = "status")

\* the step is the response of the status request handler goroutine t serves
StatusResponse(t) == route[t] = "status" /\ pc[t] = "status" /\ pc'[t] = "done"

\* C23: the count a status response reports is the length the Backend Set had
\* at a moment of the call, and 0 while no notification for the tracked
\* resource was delivered; no step of a status request changes the Backend Set
\* or the Request Counter
C23_StatusCountsTheSet ==
  [][\A t \in Tasks :
       /\ StatusStep(t) => backends' = backends /\ Requests' = Requests
       /\ StatusResponse(t)
            => /\ outcome'[t] = "200"
               /\ body'[t].ConnectedHosts \in {Len(bs) : bs \in seen[t]}
               /\ TrackedIn(log) = {} => body'[t].ConnectedHosts = 0]_vars

\* a status response reported the three backends of the set after requests
\* had been dispatched
C23_Witness ==
  \E t \in Tasks :
    /\ route[t] = "status" /\ outcome[t] = "200"
    /\ body[t].ConnectedHosts = 3 /\ Len(backends) = 3
    /\ Requests >= 1

\* the step is handler goroutine t's call of Strategy.Next in selectBackend
CallsNext(t) == pc[t] = "selectBackend" /\ pc'[t] # pc[t]

\* C24 (as claimed): no caller invokes the strategy's select operation with an
\* empty sequence, neither the dispatch path nor the next-backend diagnostic.
C24_NextNeverGetsEmpty ==
  [][\A t \in Tasks : CallsNext(t) => result[t] # <<>>]_vars

\* the ready addresses of the subsets, subset by subset
RECURSIVE ReadyAddresses(_)
ReadyAddresses(subsets) ==
  IF subsets = <<>> THEN <<>>
  ELSE Head(subsets).Addresses \o ReadyAddresses(Tail(subsets))

\* the addresses the subsets list as not ready
NotReadyIPs(subsets) ==
  UNION {{subsets[i].NotReadyAddresses[j].IP : j \in 1..Len(subsets[i].NotReadyAddresses)} :
           i \in 1..Len(subsets)}

\* C25: the set reconcile installs for an event has one Backend per ready
\* address of the event, with that address's IP and pod name, in subset order
\* then address order; no address the event lists as not ready is in it (an
\* endpoints object lists an address as ready or as not ready, never as both)
C25_FlattensReadyAddresses ==
  [][ReplaceDone
     => /\ Len(backends') = Len(ReadyAddresses(endpoints.Subsets))
        /\ \A k \in 1..Len(backends') :
             /\ backends'[k].Address = ReadyAddresses(endpoints.Subsets)[k].IP
             /\ backends'[k].PodName = ReadyAddresses(endpoints.Subsets)[k].TargetRef.Name
             /\ backends'[k].Address \notin NotReadyIPs(endpoints.Subsets)]_vars

\* an event of two subsets, the first with a ready and a not-ready address,
\* was reconciled into the two ready ones
C25_Witness ==
  /\ rpc = "idle" /\ backends = <<BackendA, BackendC>>
  /\ log # <<>> /\ Tracked(LastOf(log))
  /\ Len(LastOf(log).Subsets) = 2
  /\ NotReadyIPs(LastOf(log).Subsets) = {BackendB.Address}

\* the step is the add of the ping call handler goroutine t serves
PingAdd(t) == spc[t] = "ping" /\ spc'[t] # spc[t]

\* the step is the response of the ping call handler goroutine t serves
PingReply(t) == spc[t] = "writeJSON" /\ spc'[t] = "done"

\* the step is one of the status call handler goroutine t serves
ServiceStatusStep(t) ==
  spc'[t] # spc[t] /\ (spc[t] = "status" \/ spc'[t] = "status")

FromFile == called.loader \in {"backend.LoadFromFile", "balancer.LoadFromFile"}

\* the kinds the loader's Config wants for the keys of its file
SchemaOf == IF called.loader = "backend.LoadFromFile" THEN BackendSchema ELSE BalancerSchema

\* the variables the loader requires, and those of them that hold a port
Required ==
  IF called.loader = "backend.LoadFromEnv" THEN {"SERVICE_NAME", "SERVICE_PORT"}
  ELSE {"BACKEND_NAME", "BACKEND_PORT", "LOADBALANCER_PORT", "LOADBALANCER_METHOD"}
PortVars == {"SERVICE_PORT", "BACKEND_PORT", "LOADBALANCER_PORT"}

\* the texts among Chars that write no integer, and the integer the others write
NotAnInteger == {"1234a", "80a", "x", ""}
Means(s) ==
  CASE s = "1234" -> 1234 [] s = "8080" -> 8080 [] s = "9090" -> 9090
    [] s = "-1" -> 0 - 1 [] s = "+80" -> 80

\* the field of Config each key and each variable is for
FieldOf ==
  [k \in {"port", "name", "backendname", "backendport", "loadbalancerport",
          "loadbalancermethod", "SERVICE_NAME", "SERVICE_PORT", "BACKEND_NAME",
          "BACKEND_PORT", "LOADBALANCER_PORT", "LOADBALANCER_METHOD"} |->
     CASE k \in {"port", "SERVICE_PORT"} -> "Port"
       [] k \in {"name", "SERVICE_NAME"} -> "ServiceName"
       [] k \in {"backendname", "BACKEND_NAME"} -> "BackendName"
       [] k \in {"backendport", "BACKEND_PORT"} -> "BackendPort"
       [] k \in {"loadbalancerport", "LOADBALANCER_PORT"} -> "LoadbalancerPort"
       [] k \in {"loadbalancermethod", "LOADBALANCER_METHOD"} -> "LoadbalancerMethod"]

\* the input is unusable: the file does not exist, a key of the JSON object has
\* a value of the wrong type, a required variable is unset, or a port variable
\* holds no integer
Unusable ==
  IF FromFile
  THEN \/ called.input.kind = "absent"
       \/ /\ called.input.kind = "object"
          /\ \E k \in DOMAIN SchemaOf :
               called.input.fields[k].kind \notin {"missing", SchemaOf[k]}
  ELSE \/ \E v \in Required : ~called.input[v].ok
       \/ \E v \in Required \cap PortVars : called.input[v].ok /\ called.input[v].val \in NotAnInteger

\* the config carries every value the input gives
CarriesGiven(c) ==
  IF FromFile
  THEN /\ called.input.kind = "object"
       /\ \A k \in DOMAIN SchemaOf :
            called.input.fields[k] # Missing => c[FieldOf[k]] = Val(called.input.fields[k])
  ELSE \A v \in Required :
         c[FieldOf[v]] = IF v \in PortVars THEN Means(called.input[v].val) ELSE called.input[v].val

\* C27: a loader called on an unusable input (no file, a JSON value of the
\* wrong type, a required variable unset, a port variable that is no integer)
\* returns an error and no config; a loader that returns a config returns no
\* error, its input was usable, and the config carries the values given
C27_LoaderErrorOrConfig ==
  loaded # Nil
  => /\ Unusable => loaded.err # None /\ loaded.cfg = Nil
     /\ loaded.cfg # Nil => loaded.err = None /\ ~Unusable /\ CarriesGiven(loaded.cfg)
     /\ loaded.err # None => loaded.cfg = Nil

\* the backend's loader refused the port text "1234a"
C27_Witness ==
  /\ loaded # Nil /\ called.loader = "backend.LoadFromEnv"
  /\ called.input.SERVICE_PORT = Var("1234a") /\ called.input.SERVICE_NAME.ok
  /\ loaded.err # None /\ loaded.cfg = Nil

\* the request of handler goroutine t is in flight to its backend
InFlight(t) == pc[t] = "forward" /\ conn[t] = "open"

\* the step is the cancellation of a request or the teardown that follows it
CancellationStep ==
  \E t \in Tasks :
    \/ ctxDone'[t] /\ ~ctxDone[t]
    \/ ctxDone[t] /\ pc[t] = "forward" /\ pc'[t] # pc[t]

C29_CounterValuesAreDistinct ==
  /\ \A i \in 1..Len(obtained) : obtained[i] = i
  /\ \A t, u \in Tasks :
       (t # u /\ pc[t] \in {"Unlock", "GetAll", "GetAllCopy", "selectBackend"}
              /\ pc[u] \in {"Unlock", "GetAll", "GetAllCopy", "selectBackend"})
       => requests[t] # requests[u]

\* two requests have obtained 1 and 2, and a fourth request waits for the
\* lock while the third is between the load and the store
C29_Witness ==
  /\ obtained = <<1, 2>>
  /\ \E t, u \in Tasks : pc[t] = "store" /\ t \in bhmu.w /\ u \in bhmu.p

\* the N requests with the counter values c, ..., c + N - 1 have all selected,
\* each from the same set S of N backends
Window(c, S) ==
  /\ S # <<>> /\ c + Len(S) - 1 <= MaxRequests
  /\ \A i \in 0..(Len(S) - 1) : picked[c + i] # Nil /\ picked[c + i].of = S

\* the position of backend b in the set S
PositionIn(S, b) == CHOOSE k \in 1..Len(S) : S[k] = b

\* C30: N requests that hold N consecutive counter values and select from the
\* same set of N backends select every backend of the set exactly once, each
\* request the backend after the one of the request before it in set order,
\* the first after the last; in whatever order the requests ran
C30_WindowCoversTheSet ==
  \A c \in 1..MaxRequests :
    (picked[c] # Nil /\ Window(c, picked[c].of))
    => LET S == picked[c].of
       IN /\ {picked[c + i].b : i \in 0..(Len(S) - 1)} = {S[k] : k \in 1..Len(S)}
          /\ \A i \in 0..(Len(S) - 2) :
               PositionIn(S, picked[c + i + 1].b) = (PositionIn(S, picked[c + i].b) % Len(S)) + 1

\* the requests with the counter values 2, 3, 4 selected C, A, B from [A, B, C],
\* the one with 2 after the other two
C30_Witness ==
  /\ Window(2, SetABC)
  /\ picked[2].b = BackendC /\ picked[3].b = BackendA /\ picked[4].b = BackendB
  /\ \E t \in Tasks : pc[t] = "SetURL" /\ requests[t] = 2

\* C31 (as claimed): for every value of the Request Counter, also after it has
\* wrapped around at the limit of its width, the index round-robin selection
\* computes for a set of N backends is in 0..N-1 and the selection does not fail.
C31_IndexInRangeAfterWrap ==
  [][\A t \in Tasks :
       (CallsNext(t) /\ result[t] # <<>>)
       => /\ GoRem(requests[t], Len(result[t])) \in 0..(Len(result[t]) - 1)
          /\ outcome'[t] # "panic"]_vars

\* the step is the delivery of a delete notification
DeleteDelivery == Delivery /\ verb' = "DeleteFunc"

\* C32: a delete notification for the tracked resource is reconciled like an
\* add or an update: it starts a replacement with the flattened membership the
\* deleted object carries, and when the replacement is done the Backend Set is
\* that membership, empty only if the object carries no ready address; a
\* delete notification for anything else starts nothing
C32_DeleteReconcilesItsObject ==
  [][/\ (DeleteDelivery /\ Tracked(LastOf(log')) /\ ~NoTargetRef(LastOf(log')))
        => /\ rpc' = "Replace" /\ backends' = backends
           /\ IsMembership(rbackends', LastOf(log'))
     /\ (DeleteDelivery /\ ~Tracked(LastOf(log')))
        => rpc' = "idle" /\ backends' = backends
     /\ (ReplaceDone /\ verb = "DeleteFunc")
        => /\ Tracked(LastOf(log))
           /\ IsMembership(backends', LastOf(log))
           /\ backends' = <<>> <=> ReadyAddresses(LastOf(log).Subsets) = <<>>]_vars

\* the set was [A, C], then a delete notification carrying A, B and C was
\* reconciled, and the set is [A, B, C]
C32_Witness ==
  /\ verb = "DeleteFunc" /\ rpc = "idle" /\ ~crashed
  /\ Len(log) = 2 /\ Tracked(log[1]) /\ Tracked(log[2])
  /\ Len(log[1].Subsets) = 2 /\ ReadyAddresses(log[2].Subsets) # <<>>
  /\ backends = SetABC

\* the goroutines that take locks: the handler goroutines, and the informer
\* goroutine under the number after theirs
InformerNo == NumTasks + 1
Goroutines == Tasks \cup {InformerNo}

\* the goroutines g waits for: the holders that keep it out of the lock it has
\* called for and, for a reader, the writers that called Lock before it
WaitsFor(g) ==
  IF g = InformerNo
  THEN IF rpc = "Replace" THEN blmu.r ELSE {}
  ELSE IF pc[g] = "Rewrite" THEN (bhmu.w \cup bhmu.r) \ {g}
  ELSE IF pc[g] = "nextBackend" THEN bhmu.w \cup bhmu.p
  ELSE IF pc[g] = "GetAll" /\ (blmu.w # {} \/ blmu.p # {}) THEN {InformerNo}
  ELSE {}

\* the goroutines reached from those of G along n waits at most
RECURSIVE WaitChain(_, _)
WaitChain(G, n) ==
  IF n = 0 THEN G ELSE WaitChain(G \cup UNION {WaitsFor(g) : g \in G}, n - 1)

\* the goroutine holds a lock
Holds(g) ==
  IF g = InformerNo THEN Informer \in blmu.w
  ELSE g \in bhmu.w \/ g \in bhmu.r \/ g \in blmu.r

\* the goroutine is inside the critical section of the call that took its lock
InCriticalSection(g) ==
  IF g = InformerNo THEN rpc = "ReplaceAssign" /\ blmu.r = {}
  ELSE \/ pc[g] = "RewriteInc" /\ bhmu.w = {g} /\ bhmu.r = {} /\ g \notin blmu.r
       \/ pc[g] = "nextBackendRead" /\ g \in bhmu.r /\ bhmu.w = {} /\ g \notin blmu.r
       \/ pc[g] = "GetAllCopy" /\ g \in blmu.r /\ blmu.w = {} /\ ~HoldsCounterLock(g)

\* C33: no goroutine waits, along a chain of waits for the counter's lock and
\* the registry's lock, for itself; a goroutine that holds a lock waits for
\* none and is inside the critical section of the call that took the lock, so
\* the lock is released by the call that took it; a goroutine that waits for
\* nobody gets the lock it has called for
C33_NoWaitCycle ==
  /\ \A g \in Goroutines : g \notin WaitChain(WaitsFor(g), NumTasks + 1)
  /\ \A g \in Goroutines : Holds(g) => (WaitsFor(g) = {} /\ InCriticalSection(g))
  /\ \A t \in Tasks :
       (pc[t] \in {"Rewrite", "nextBackend", "GetAll"} /\ WaitsFor(t) = {} /\ ~crashed)
       => ENABLED Acquire(t)
  /\ (rpc = "Replace" /\ WaitsFor(InformerNo) = {} /\ ~crashed) => ENABLED ReplaceLock

\* a handler waits in RLock for the informer, which waits in Lock for the
\* other handler to finish its copy
C33_Witness ==
  \E t, u \in Tasks :
    /\ WaitsFor(t) = {InformerNo} /\ WaitsFor(InformerNo) = {u} /\ WaitsFor(u) = {}
    /\ Holds(u) /\ ~Holds(t) /\ ~crashed

\* the step is one of a handler goroutine: of dispatch, of the status endpoint
\* or of the next-backend diagnostic
HandlerStep == \E t \in Tasks : pc'[t] # pc[t]

\* the step is one of the informer goroutine: a delivery, or a step of Replace
ReconcileStep == delivered' # delivered \/ rpc' # rpc

\* C34: only reconciliation writes the Backend Set: the set changes in no step
\* but the assignment of Replace, no step of a handler (dispatch, status,
\* next-backend) changes it, and no step of reconciliation changes the Request
\* Counter
C34_OnlyReconcileWritesTheSet ==
  [][/\ backends' # backends => (rpc = "ReplaceAssign" /\ rpc' = "idle" /\ ~HandlerStep)
     /\ HandlerStep => backends' = backends
     /\ ReconcileStep => Requests' = Requests]_vars

\* reconciliation has installed [A, C] after two requests were counted, and a
\* status call and a next-backend call have been answered since
C34_Witness ==
  /\ backends = <<BackendA, BackendC>> /\ Len(log) = 2 /\ rpc = "idle"
  /\ Requests = 2
  /\ \E t, u \in Tasks :
       /\ route[t] = "status" /\ pc[t] = "done" /\ body[t].ConnectedHosts = 2
       /\ route[u] = "nextBackend" /\ pc[u] = "done" /\ outcome[u] = "200"

\* the instance's informer has handled the first n notifications of the feed
\* and is not inside a reconciliation
Processed(i, n) == replica[i].consumed = n /\ replica[i].rpc = "idle"

\* C35: two instances that have processed the same notifications of the feed
\* hold the same Backend Set, however many requests each has received and
\* however these interleaved with the notifications; and each instance's
\* counter is the number of requests that instance has received
C35_ReplicasAgree ==
  /\ \A i, j \in Instances : \A n \in 0..Len(stream) :
       (Processed(i, n) /\ Processed(j, n)) => replica[i].backends = replica[j].backends
  /\ \A i \in Instances : replica[i].Requests = replica[i].received

\* both instances have processed the two notifications published and hold
\* [A, C]; one has served two requests, the second of them selecting A from
\* [A, C], the other none
C35_Witness ==
  /\ Len(stream) = 2 /\ stream[1] # stream[2]
  /\ \E i, j \in Instances :
       /\ Processed(i, 2) /\ Processed(j, 2)
       /\ replica[i].backends = <<BackendA, BackendC>>
       /\ replica[j].backends = <<BackendA, BackendC>>
       /\ replica[i].Requests = 2 /\ replica[i].target = BackendA
       /\ replica[j].Requests = 0

\* the loader is one of the balancer's
OfBalancer == called.loader \in {"balancer.LoadFromFile", "balancer.LoadFromEnv"}

\* the load-balancing method the input configures: the string under the key
\* or in the variable, the empty string if the object has no such key
MethodConfigured ==
  IF FromFile
  THEN IF called.input.kind # "object" THEN {}
       ELSE IF called.input.fields.loadbalancermethod = Missing THEN {""}
       ELSE IF called.input.fields.loadbalancermethod.kind = "string"
       THEN {called.input.fields.loadbalancermethod.str}
       ELSE {}
  ELSE IF called.input.LOADBALANCER_METHOD.ok
       THEN {called.input.LOADBALANCER_METHOD.val} ELSE {}

\* every field but the method is given and valid
OthersValid ==
  IF FromFile
  THEN /\ called.input.kind = "object"
       /\ \A k \in DOMAIN BalancerSchema \ {"loadbalancermethod"} :
            called.input.fields[k].kind = BalancerSchema[k]
  ELSE \A v \in Required \ {"LOADBALANCER_METHOD"} :
         called.input[v].ok /\ called.input[v].val \notin NotAnInteger

\* C36: a balancer loader whose input configures a method that is none of the
\* known strategy names returns an error and no config, also when every other
\* field is valid; so a config a balancer loader returns names a known strategy
C36_UnknownMethodIsRejected ==
  (loaded # Nil /\ OfBalancer)
  => /\ (MethodConfigured # {} /\ MethodConfigured \cap {StrategyRoundRobin} = {})
          => (loaded.err # None /\ loaded.cfg = Nil /\ ~loaded.panic)
     /\ loaded.cfg # Nil => loaded.cfg.LoadbalancerMethod \in {StrategyRoundRobin}

\* LoadFromFile refused a file whose only fault is the method "LeastConn"
C36_Witness ==
  /\ loaded # Nil /\ called.loader = "balancer.LoadFromFile"
  /\ OthersValid /\ MethodConfigured = {"LeastConn"}
  /\ loaded.err = validate(Config("LeastConn")) /\ loaded.cfg = Nil

\* the ping calls that have done their add and not yet written their response
Unanswered == {t \in Tasks : spc[t] = "writeJSON"}

\* the counts the ping responses have carried
Reported == {reported[i] : i \in 1..Len(reported)}

\* C37: in the backend responder no increment of concurrent ping calls is
\* lost and no value is reported twice: Count is the number of ping calls that
\* have done their add, the values reported are pairwise distinct and among
\* 1..Count, two calls in flight hold different values, and once the n calls
\* that did their add have all answered, the values reported are 1, ..., n
C37_ConcurrentPingsAreCounted ==
  /\ Count = pings
  /\ \A i, j \in 1..Len(reported) : i # j => reported[i] # reported[j]
  /\ Reported \subseteq 1..Count
  /\ \A t \in Unanswered : count[t] \in (1..Count) \ Reported
  /\ \A t, u \in Unanswered : t # u => count[t] # count[u]
  /\ Unanswered = {} => (Reported = 1..Count /\ Len(reported) = Count)

\* two ping calls ran concurrently and the one that added second answered
\* first; a third call has answered, a fourth has done its add
C37_Witness ==
  /\ Len(reported) = 3 /\ reported[1] = 2 /\ reported[2] = 1 /\ reported[3] = 3
  /\ Count = 4 /\ \E t \in Unanswered : count[t] = 4

\* C38 (as claimed): after a termination signal the process does not end until
\* the graceful shutdown has returned: when the process has ended, stopCh is
\* closed, server.Shutdown was called and has returned, and a request was cut
\* off only if the 10 seconds had passed.
C38_ExitWaitsForShutdown ==
  mainpc = "exited" => (stopCh = "closed" /\ shutter = "returned")

====
